---------------------------- MODULE Spec2Model ----------------------------
(***************************************************************************)
(* A model of the text-corpus core of the EPUB editor:                     *)
(*   core/content_manager.py  (ContentManager, "the Store")                *)
(*   core/search_engine.py    (SearchEngine)                               *)
(*   core/replace_engine.py   (ReplaceEngine)                              *)
(*   src/epub_editor_pro/core/epub_saver.py  (EPUBSaver)                   *)
(*   core/epub_loader.py      (EPUBLoader)                                 *)
(* A content is a sequence of characters; a character is a one-element     *)
(* string.  Every public method is one action; the arguments and the       *)
(* returned value of the last call are kept in `call` and `ret`.  Where    *)
(* threads meet (the worker pool of search, update_content called from     *)
(* two threads) the method is a sequence of steps, one action each.        *)
(***************************************************************************)
EXTENDS Integers, Sequences, FiniteSets, TLC

VARIABLES
    content_map,        \* ContentManager.content_map: path -> content
    original_content,   \* ContentManager.original_content: path -> content
    modified_files,     \* ContentManager.modified_files: set of paths
    change_history,     \* ContentManager.change_history: path -> seq of <<old, new>>
    file_index,         \* ContentManager.file_index: word -> seq of <<path, line, pos>>
    stats,              \* ContentManager.stats
    key_order,          \* the insertion order of content_map's keys (a dict keeps it)
    search_cache,       \* SearchEngine.search_cache: cache key -> list of results
    replacement_history, \* ReplaceEngine.replacement_history
    call,               \* the last public call and its arguments
    ret,                \* the value that call returned
    pool,               \* the search whose per-file tasks are in the worker pool
    threads,            \* the Store calls in progress, one per calling thread
    disk,               \* the files the Saver reads and writes
    loader              \* the EPUBLoader: its maps and lists

storeVars == <<content_map, original_content, modified_files, change_history,
               file_index, stats, key_order>>
engineVars == <<search_cache, replacement_history>>
concVars == <<pool, threads, disk, loader>>
vars == <<content_map, original_content, modified_files, change_history,
          file_index, stats, key_order, search_cache, replacement_history,
          call, ret, pool, threads, disk, loader>>

---------------------------------------------------------------------------
(* Bounds of the model *)

\* accepted updates explored per path (guard of the Update action)
MaxHistory == 2
\* add_file calls explored where a path may be added again
MaxAdds == 2

---------------------------------------------------------------------------
(* Characters and contents *)

NUL == "NUL"
\* a letter outside ASCII
E_ACUTE == "e_acute"
NL == "\n"

Paths == {"p1", "p2"}

LowerLetters ==
   {"a", "b", "c", "d", "e", "f", "g", "h", "i", "j", "k", "l", "m", "n",
    "o", "p", "q", "r", "s", "t", "u", "v", "w", "x", "y", "z"}

UpperLetters ==
   {"A", "B", "C", "D", "E", "F", "G", "H", "I", "J", "K", "L", "M", "N",
    "O", "P", "Q", "R", "S", "T", "U", "V", "W", "X", "Y", "Z"}

\* the characters matched by the regular expression \w (letters only)
WordChars == LowerLetters \cup UpperLetters \cup {E_ACUTE}

IsWordChar(c) == c \in WordChars

\* the lower-case letter of every upper-case letter
ToLower ==
   [A |-> "a", B |-> "b", C |-> "c", D |-> "d", E |-> "e", F |-> "f",
    G |-> "g", H |-> "h", I |-> "i", J |-> "j", K |-> "k", L |-> "l",
    M |-> "m", N |-> "n", O |-> "o", P |-> "p", Q |-> "q", R |-> "r",
    S |-> "s", T |-> "t", U |-> "u", V |-> "v", W |-> "w", X |-> "x",
    Y |-> "y", Z |-> "z"]

\* str.lower() on one character
LowerChar(c) == IF c \in UpperLetters THEN ToLower[c] ELSE c

Lower(s) == [i \in 1..Len(s) |-> LowerChar(s[i])]

cAa == <<"A", " ", "a">>
cAB == <<"a", NL, "b">>
cNul == <<"a", NUL>>

StoreContents == {cAa, cAB, cNul}

Steps == 0..MaxHistory

Max(a, b) == IF a >= b THEN a ELSE b
Min(a, b) == IF a <= b THEN a ELSE b

\* s[from..to] with 1-based inclusive positions, empty when from > to
Slice(s, from, to) == [i \in 1..Max(0, to - from + 1) |-> s[from + i - 1]]

\* content.split('\n'): the lines of a content, at least one
RECURSIVE SplitFrom(_, _, _)
SplitFrom(s, start, i) ==
    IF i > Len(s) THEN <<Slice(s, start, Len(s))>>
    ELSE IF s[i] = NL
         THEN <<Slice(s, start, i - 1)>> \o SplitFrom(s, i + 1, i + 1)
         ELSE SplitFrom(s, start, i + 1)

SplitLines(s) == SplitFrom(s, 1, 1)

\* '\n'.join(lines)
RECURSIVE JoinLines(_)
JoinLines(lines) ==
    IF Len(lines) = 0 THEN <<>>
    ELSE IF Len(lines) = 1 THEN lines[1]
    ELSE lines[1] \o <<NL>> \o JoinLines(Tail(lines))

\* the end (1-based, inclusive) of the maximal run of word characters at i
RECURSIVE RunEnd(_, _)
RunEnd(s, i) ==
    IF i < Len(s) /\ IsWordChar(s[i + 1]) THEN RunEnd(s, i + 1) ELSE i

\* re.finditer(r'\w+', s): the matches in order, as [word, pos] with pos 0-based
RECURSIVE WordMatchesFrom(_, _)
WordMatchesFrom(s, i) ==
    IF i > Len(s) THEN <<>>
    ELSE IF IsWordChar(s[i])
         THEN <<[word |-> Slice(s, i, RunEnd(s, i)), pos |-> i - 1]>>
              \o WordMatchesFrom(s, RunEnd(s, i) + 1)
         ELSE WordMatchesFrom(s, i + 1)

WordMatches(s) == WordMatchesFrom(s, 1)

\* re.findall(r'\w+', s)
FindAllWords(s) == [i \in 1..Len(WordMatches(s)) |-> WordMatches(s)[i].word]

SeqToSet(s) == {s[i] : i \in 1..Len(s)}

\* '\x00' in content
HasNull(content) == NUL \in SeqToSet(content)

\* a validation that lets every content through
validate_content_AcceptAll(content) == TRUE

validate_content(content) == ~HasNull(content)

---------------------------------------------------------------------------
(* The word index *)

\* the postings _index_content appends for one file, in the order it appends them
RECURSIVE LinePostings(_, _, _)
LinePostings(file_path, lines, line_num) ==
    IF line_num > Len(lines) THEN <<>>
    ELSE LET ms == WordMatches(Lower(lines[line_num]))
         IN  [i \in 1..Len(ms) |->
                 [word |-> ms[i].word, entry |-> <<file_path, line_num, ms[i].pos>>]]
             \o LinePostings(file_path, lines, line_num + 1)

Postings(file_path, content) == LinePostings(file_path, SplitLines(content), 1)

\* self.file_index[word].append(entry) on a defaultdict(list), for each posting
RECURSIVE AppendPostings(_, _)
AppendPostings(index, ps) ==
    IF Len(ps) = 0 THEN index
    ELSE LET w == ps[1].word
             old == IF w \in DOMAIN index THEN index[w] ELSE <<>>
             next == [k \in (DOMAIN index) \cup {w} |->
                         IF k = w THEN Append(old, ps[1].entry) ELSE index[k]]
         IN  AppendPostings(next, Tail(ps))

index_content(index, file_path, content) ==
    AppendPostings(index, Postings(file_path, content))

\* [entry for entry in lst if entry[0] != file_path]
RECURSIVE WithoutFile(_, _)
WithoutFile(lst, file_path) ==
    IF Len(lst) = 0 THEN <<>>
    ELSE IF lst[1][1] # file_path
         THEN <<lst[1]>> \o WithoutFile(Tail(lst), file_path)
         ELSE WithoutFile(Tail(lst), file_path)

\* step 2 of _reindex_file: purge the words that left the file, drop empty keys
PurgeRemoved(index, file_path, words_to_remove) ==
    LET gone == {w \in (DOMAIN index) \cap words_to_remove :
                    WithoutFile(index[w], file_path) = <<>>}
    IN  [w \in (DOMAIN index) \ gone |->
            IF w \in words_to_remove THEN WithoutFile(index[w], file_path)
            ELSE index[w]]

\* step 3 left out: the new postings are merged into the old ones
ClearKept_Merge(index, file_path, kept) == index

\* step 3 of _reindex_file: clear the file's postings of the words it keeps
ClearKept(index, file_path, kept) ==
    [w \in DOMAIN index |->
        IF w \in kept THEN WithoutFile(index[w], file_path) ELSE index[w]]

reindex_file(index, file_path, old_content, new_content) ==
    LET old_words == SeqToSet(FindAllWords(Lower(old_content)))
        new_words == SeqToSet(FindAllWords(Lower(new_content)))
        purged == PurgeRemoved(index, file_path, old_words \ new_words)
        cleared == ClearKept(purged, file_path, new_words \cap old_words)
    IN  AppendPostings(cleared, Postings(file_path, new_content))

\* search_index(word)
search_index(word) ==
    IF Lower(word) \in DOMAIN file_index THEN file_index[Lower(word)] ELSE <<>>

---------------------------------------------------------------------------
(* Statistics *)

update_stats_add(st, content) ==
    [st EXCEPT !.total_files = @ + 1,
               !.total_chars = @ + Len(content),
               !.total_words = @ + Len(FindAllWords(content))]

update_stats_modify(st, old_content, new_content) ==
    [st EXCEPT !.total_chars = @ + Len(new_content) - Len(old_content),
               !.total_words = @ + Len(FindAllWords(new_content))
                                 - Len(FindAllWords(old_content))]

---------------------------------------------------------------------------
(* ContentManager *)

\* what a call gives back: a returned value, or an exception raised past the method
NONE == "None"

\* the threads that call the Store concurrently
Threads == {"t1", "t2"}

\* what is at a path: a zip archive with its entries, or something else
File(kind, entries) == [kind |-> kind, entries |-> entries]
Zip(entries) == File("zip", entries)
\* a path with no file
MISSING == File("missing", <<>>)
\* the paths of the archives: the book, the target of a "save as", and a file
\* whose name does not end in .epub
FilePaths == {"book.epub", "out.epub", "book.zip"}
\* EPUBLoader.__init__: content_map and manifest are dicts (pairs in insertion
\* order), spine a list, metadata a dict of lists (here the list of titles)
NewLoader == [epub_path |-> NONE, content_map |-> <<>>, manifest |-> <<>>, spine |-> <<>>, metadata |-> <<>>, structure |-> <<>>]

\* the disk with no archive, no backup directory and no temporary directory
EmptyDisk == [files |-> [f \in FilePaths |-> MISSING], backup_dir |-> FALSE, backups |-> <<>>, temp_dirs |-> 0]

\* no search is waiting for tasks
IdlePool == [phase |-> "idle"]
\* a thread that is in no call, and the number of its calls that returned True
Idle(accepted) == [pc |-> "idle", accepted |-> accepted]
IdleThread == Idle(0)
\* (repr is the printed form of the value: it tells None, a bool and a list apart)
Returned(v) == [raised |-> "", repr |-> ToString(v), value |-> v]
Raised(exception) == [raised |-> exception, repr |-> ToString(NONE), value |-> NONE]

Put(f, k, v) == [x \in (DOMAIN f) \cup {k} |-> IF x = k THEN v ELSE f[x]]

History(p) == IF p \in DOMAIN change_history THEN change_history[p] ELSE <<>>

Init ==
    /\ content_map = <<>>
    /\ original_content = <<>>
    /\ modified_files = {}
    /\ change_history = <<>>
    /\ file_index = <<>>
    /\ stats = [total_files |-> 0, total_words |-> 0, total_chars |-> 0,
                modified_count |-> 0]
    /\ key_order = <<>>
    /\ search_cache = <<>>
    /\ replacement_history = <<>>
    /\ call = [op |-> "init"]
    /\ ret = Returned(NONE)
    /\ pool = IdlePool
    /\ threads = [t \in Threads |-> IdleThread]
    /\ disk = EmptyDisk
    /\ loader = NewLoader

\* add_file(file_path, content)
Add(file_path, content) ==
    /\ UNCHANGED concVars
    /\ call' = [op |-> "add", path |-> file_path, content |-> content]
    /\ UNCHANGED engineVars
    /\ IF ~validate_content(content)
       THEN /\ ret' = Returned(FALSE)
            /\ UNCHANGED storeVars
       ELSE /\ content_map' = Put(content_map, file_path, content)
            /\ key_order' = IF file_path \in DOMAIN content_map THEN key_order
                            ELSE Append(key_order, file_path)
            /\ original_content' = Put(original_content, file_path, content)
            /\ stats' = update_stats_add(stats, content)
            /\ file_index' = index_content(file_index, file_path, content)
            /\ ret' = Returned(TRUE)
            /\ UNCHANGED <<modified_files, change_history>>

\* every update is tracked, equal content or not
ContentChanged_Always(old_content, new_content) == TRUE

\* the test of update_content that decides whether the change is tracked
ContentChanged(old_content, new_content) == old_content # new_content

\* the Store as one value, for the methods that other components call
Store ==
    [content_map |-> content_map, original_content |-> original_content,
     modified_files |-> modified_files, change_history |-> change_history,
     file_index |-> file_index, stats |-> stats]

StoreBecomes(S) ==
    /\ content_map' = S.content_map
    /\ original_content' = S.original_content
    /\ modified_files' = S.modified_files
    /\ change_history' = S.change_history
    /\ file_index' = S.file_index
    /\ stats' = S.stats
    /\ UNCHANGED key_order

\* whether update_content(file_path, new_content) returns True in Store S
UpdateAccepts(S, file_path, new_content) ==
    /\ file_path \in DOMAIN S.content_map
    /\ validate_content(new_content)
    /\ ContentChanged(S.content_map[file_path], new_content)

\* the Store after an accepted update_content(file_path, new_content) in Store S
UpdateEffect(S, file_path, new_content) ==
    LET old_content == S.content_map[file_path]
        modified == S.modified_files \cup {file_path}
        counted == IF file_path \in S.modified_files THEN S.stats
                   ELSE [S.stats EXCEPT !.modified_count = Cardinality(modified)]
        history == IF file_path \in DOMAIN S.change_history
                   THEN S.change_history[file_path] ELSE <<>>
    IN  [S EXCEPT
            !.content_map = [@ EXCEPT ![file_path] = new_content],
            !.modified_files = modified,
            !.change_history = Put(@, file_path,
                                   Append(history, <<old_content, new_content>>)),
            !.file_index = reindex_file(@, file_path, old_content, new_content),
            !.stats = update_stats_modify(counted, old_content, new_content)]

\* update_content as a function: the returned value and the Store it leaves
update_content(S, file_path, new_content) ==
    IF UpdateAccepts(S, file_path, new_content)
    THEN [ok |-> TRUE, store |-> UpdateEffect(S, file_path, new_content)]
    ELSE [ok |-> FALSE, store |-> S]

\* no history of Store S is longer than the model explores
WithinHistoryBound(S) ==
    \A p \in DOMAIN S.change_history : Len(S.change_history[p]) <= MaxHistory

\* update_content(file_path, new_content)
Update(file_path, new_content) ==
    LET r == update_content(Store, file_path, new_content)
    IN  /\ WithinHistoryBound(r.store)
        /\ UNCHANGED concVars
        /\ call' = [op |-> "update", path |-> file_path, content |-> new_content]
        /\ ret' = Returned(r.ok)
        /\ StoreBecomes(r.store)
        /\ UNCHANGED engineVars

\* the guard of rollback_file: the call is refused when it holds
RollbackRefused(file_path, steps) ==
    \/ file_path \notin DOMAIN change_history
    \/ change_history[file_path] = <<>>
    \/ steps < 1

\* an exhausted history leaves the current content in place
RollbackContent_KeepCurrent(file_path, remaining) ==
    IF remaining = <<>> THEN content_map[file_path]
    ELSE remaining[Len(remaining)][1]

\* the content rollback_file restores once `remaining` is what is left of the history
RollbackContent(file_path, remaining) ==
    IF remaining = <<>> THEN original_content[file_path]
    ELSE remaining[Len(remaining)][1]

\* rollback_file(file_path, steps)
Rollback(file_path, steps) ==
    /\ UNCHANGED concVars
    /\ call' = [op |-> "rollback", path |-> file_path, steps |-> steps]
    /\ UNCHANGED engineVars
    /\ IF RollbackRefused(file_path, steps)
       THEN /\ ret' = Returned(FALSE)
            /\ UNCHANGED storeVars
       ELSE LET hist == change_history[file_path]
                current_content == content_map[file_path]
                popped == Min(steps, Len(hist))
                remaining == SubSeq(hist, 1, Len(hist) - popped)
                new_content == RollbackContent(file_path, remaining)
                modified == IF remaining = <<>> THEN modified_files \ {file_path}
                            ELSE modified_files
                counted == IF remaining = <<>>
                           THEN [stats EXCEPT !.modified_count = Cardinality(modified)]
                           ELSE stats
            IN  /\ change_history' = [change_history EXCEPT ![file_path] = remaining]
                /\ modified_files' = modified
                /\ content_map' = [content_map EXCEPT ![file_path] = new_content]
                /\ file_index' = reindex_file(file_index, file_path,
                                              current_content, new_content)
                /\ stats' = update_stats_modify(counted, current_content, new_content)
                /\ ret' = Returned(TRUE)
                /\ UNCHANGED <<original_content, key_order>>

---------------------------------------------------------------------------
(* Regular expressions: the fragment of Python's re that the model covers.  *)
(* A pattern is a sequence of symbols: a character, "*" (repeat the atom   *)
(* before it), "(" (opens a group; the fragment has no ")") and a repeat   *)
(* count of MAXREPEAT or more, written as one symbol.                       *)

STAR == "*"
LPAREN == "("
HUGE_REPEAT == "{4294967296}"

\* sre_parse, left to right: what re.compile(pattern) does in regex mode.
\* "re.error" and "OverflowError" are the exceptions it raises.
RECURSIVE ParseRegex(_, _, _, _, _)
ParseRegex(pattern, i, items, repeatable, open) ==
    IF i > Len(pattern)
    THEN IF open THEN [status |-> "re.error", items |-> <<>>]
         ELSE [status |-> "ok", items |-> items]
    ELSE IF pattern[i] = HUGE_REPEAT
         THEN [status |-> "OverflowError", items |-> <<>>]
    ELSE IF pattern[i] = STAR
         THEN IF repeatable
              THEN ParseRegex(pattern, i + 1,
                              [items EXCEPT ![Len(items)].star = TRUE], FALSE, open)
              ELSE [status |-> "re.error", items |-> <<>>]
    ELSE IF pattern[i] = LPAREN
         THEN ParseRegex(pattern, i + 1, items, FALSE, TRUE)
    ELSE ParseRegex(pattern, i + 1,
                    Append(items, [ch |-> pattern[i], star |-> FALSE]), TRUE, open)

\* re.escape(pattern): every symbol stands for itself
EscapedItems(pattern) == [i \in 1..Len(pattern) |-> [ch |-> pattern[i], star |-> FALSE]]

\* SearchEngine._build_search_regex: status "none" is the returned None
build_search_regex(pattern, case_sensitive, regex_mode, whole_word) ==
    IF regex_mode
    THEN LET parsed == ParseRegex(pattern, 1, <<>>, FALSE, FALSE)
         IN  IF parsed.status = "re.error" THEN [status |-> "none"]
             ELSE IF parsed.status = "OverflowError" THEN [status |-> "OverflowError"]
             ELSE [status |-> "ok", items |-> parsed.items,
                   ignorecase |-> ~case_sensitive, word |-> FALSE]
    ELSE [status |-> "ok", items |-> EscapedItems(pattern),
          ignorecase |-> ~case_sensitive, word |-> whole_word]

\* ReplaceEngine._compile_pattern: status "none" is the returned None
compile_pattern(pattern, case_sensitive, regex_mode, whole_word) ==
    LET parsed == IF regex_mode THEN ParseRegex(pattern, 1, <<>>, FALSE, FALSE)
                  ELSE [status |-> "ok", items |-> EscapedItems(pattern)]
    IN  IF parsed.status = "re.error" THEN [status |-> "none"]
        ELSE IF parsed.status = "OverflowError" THEN [status |-> "OverflowError"]
        ELSE [status |-> "ok", items |-> parsed.items,
              ignorecase |-> ~case_sensitive,
              word |-> (~regex_mode /\ whole_word)]

CharMatches(rx, c, ch) == IF rx.ignorecase THEN LowerChar(c) = LowerChar(ch) ELSE c = ch

\* \b at 0-based position pos of text
AtWordBoundary(text, pos) ==
    (pos >= 1 /\ IsWordChar(text[pos])) # (pos < Len(text) /\ IsWordChar(text[pos + 1]))

\* the number of consecutive characters matching ch from position pos on
RECURSIVE RunLength(_, _, _, _)
RunLength(rx, ch, text, pos) ==
    IF pos < Len(text) /\ CharMatches(rx, text[pos + 1], ch)
    THEN 1 + RunLength(rx, ch, text, pos + 1) ELSE 0

\* the end of the match of items k.. at position pos (greedy, backtracking), or -1
RECURSIVE MatchItems(_, _, _, _)
RECURSIVE TryRepeat(_, _, _, _, _)
MatchItems(rx, k, text, pos) ==
    IF k > Len(rx.items)
    THEN IF rx.word /\ ~AtWordBoundary(text, pos) THEN -1 ELSE pos
    ELSE IF rx.items[k].star
         THEN TryRepeat(rx, k, text, pos, RunLength(rx, rx.items[k].ch, text, pos))
    ELSE IF pos < Len(text) /\ CharMatches(rx, text[pos + 1], rx.items[k].ch)
         THEN MatchItems(rx, k + 1, text, pos + 1)
    ELSE -1

TryRepeat(rx, k, text, pos, n) ==
    LET e == MatchItems(rx, k + 1, text, pos + n)
    IN  IF e # -1 THEN e
        ELSE IF n = 0 THEN -1
        ELSE TryRepeat(rx, k, text, pos, n - 1)

MatchEnd(rx, text, pos) ==
    IF rx.word /\ ~AtWordBoundary(text, pos) THEN -1 ELSE MatchItems(rx, 1, text, pos)

\* pattern.finditer(text): the spans of the non-overlapping matches, left to right;
\* after an empty match the scan moves on by one character
RECURSIVE FindIterFrom(_, _, _)
FindIterFrom(rx, text, pos) ==
    IF pos > Len(text) THEN <<>>
    ELSE LET e == MatchEnd(rx, text, pos)
         IN  IF e = -1 THEN FindIterFrom(rx, text, pos + 1)
             ELSE <<[start |-> pos, end |-> e]>>
                  \o FindIterFrom(rx, text, IF e = pos THEN pos + 1 ELSE e)

FindIter(rx, text) == FindIterFrom(rx, text, 0)

\* text[a:b] of Python: the bounds are clamped to the text
PySlice(text, a, b) == Slice(text, Min(a, Len(text)) + 1, Min(b, Len(text)))

---------------------------------------------------------------------------
(* SearchEngine *)

Digit(b) == IF b THEN "1" ELSE "0"

\* f"{pattern}|{int(case_sensitive)}|{int(regex_mode)}|{int(whole_word)}"
generate_cache_key(pattern, case_sensitive, regex_mode, whole_word) ==
    pattern \o <<"|", Digit(case_sensitive), "|", Digit(regex_mode), "|", Digit(whole_word)>>

\* the SearchResult objects _search_file builds for one line
LineResults(file_path, line_num, line, rx, context_size) ==
    LET ms == FindIter(rx, line)
    IN  [i \in 1..Len(ms) |->
            [file_path |-> file_path,
             line_number |-> line_num,
             start_pos |-> ms[i].start,
             end_pos |-> ms[i].end,
             match_text |-> PySlice(line, ms[i].start, ms[i].end),
             context_before |-> PySlice(line, Max(0, ms[i].start - context_size),
                                        ms[i].start),
             context_after |-> PySlice(line, ms[i].end,
                                       Min(Len(line), ms[i].end + context_size))]]

RECURSIVE FileResults(_, _, _, _, _)
FileResults(file_path, lines, line_num, rx, context_size) ==
    IF line_num > Len(lines) THEN <<>>
    ELSE LineResults(file_path, line_num, lines[line_num], rx, context_size)
         \o FileResults(file_path, lines, line_num + 1, rx, context_size)

\* SearchEngine._search_file
search_file(S, file_path, rx, context_size) ==
    IF file_path \notin DOMAIN S.content_map \/ S.content_map[file_path] = <<>>
    THEN <<>>
    ELSE FileResults(file_path, SplitLines(S.content_map[file_path]), 1, rx, context_size)

\* the results of the per-file tasks, concatenated in the order of the files
RECURSIVE SearchFiles(_, _, _, _)
SearchFiles(S, files, rx, context_size) ==
    IF Len(files) = 0 THEN <<>>
    ELSE search_file(S, files[1], rx, context_size)
         \o SearchFiles(S, Tail(files), rx, context_size)

\* the cache is never consulted: every search scans
CacheHit_Never(cache_key) == FALSE

\* the test of search that decides whether the cached list is returned
CacheHit(cache_key) == cache_key \in DOMAIN search_cache

\* SearchEngine.search(pattern, case_sensitive, regex_mode, whole_word, context_size)
Search(pattern, case_sensitive, regex_mode, whole_word, context_size) ==
    LET cache_key == generate_cache_key(pattern, case_sensitive, regex_mode, whole_word)
        search_regex == build_search_regex(pattern, case_sensitive, regex_mode, whole_word)
        results == SearchFiles(Store, key_order, search_regex, context_size)
    IN  /\ UNCHANGED concVars
        /\ call' = [op |-> "search", pattern |-> pattern,
                    case_sensitive |-> case_sensitive, regex_mode |-> regex_mode,
                    whole_word |-> whole_word, context_size |-> context_size]
        /\ UNCHANGED <<storeVars, replacement_history>>
        /\ IF CacheHit(cache_key)
           THEN /\ ret' = Returned(search_cache[cache_key])
                /\ UNCHANGED search_cache
           ELSE IF search_regex.status = "OverflowError"
           THEN /\ ret' = Raised("OverflowError")
                /\ UNCHANGED search_cache
           ELSE IF search_regex.status = "none"
           THEN /\ ret' = Returned(<<>>)
                /\ UNCHANGED search_cache
           ELSE /\ search_cache' = Put(search_cache, cache_key, results)
                /\ ret' = Returned(results)

\* SearchEngine.clear_cache()
ClearCache ==
    /\ UNCHANGED concVars
    /\ call' = [op |-> "clear_cache"]
    /\ ret' = Returned(NONE)
    /\ search_cache' = <<>>
    /\ UNCHANGED <<storeVars, replacement_history>>

---------------------------------------------------------------------------
(* ReplaceEngine *)

ZeroStats ==
    [total_replacements |-> 0, files_modified |-> 0, failed_files |-> 0,
     characters_changed |-> 0]

BACKSLASH == "\\"

\* the replacement template of pattern.subn, parsed left to right: a backslash
\* starts an escape; the fragment has no groups, so a group reference is an error
RECURSIVE ParseTemplate(_, _, _)
ParseTemplate(replacement, i, out) ==
    IF i > Len(replacement) THEN [status |-> "ok", text |-> out]
    ELSE IF replacement[i] # BACKSLASH
         THEN ParseTemplate(replacement, i + 1, Append(out, replacement[i]))
    ELSE IF i = Len(replacement) THEN [status |-> "re.error", text |-> <<>>]
    ELSE IF replacement[i + 1] = BACKSLASH
         THEN ParseTemplate(replacement, i + 2, Append(out, BACKSLASH))
    ELSE IF replacement[i + 1] = "n"
         THEN ParseTemplate(replacement, i + 2, Append(out, NL))
    ELSE [status |-> "re.error", text |-> <<>>]

\* text with the spans (left to right, not overlapping) replaced by new_text
RECURSIVE SubSpans(_, _, _, _)
SubSpans(text, spans, new_text, from) ==
    IF Len(spans) = 0 THEN PySlice(text, from, Len(text))
    ELSE PySlice(text, from, spans[1].start) \o new_text
         \o SubSpans(text, Tail(spans), new_text, spans[1].end)

\* only the first match is replaced
replace_in_content_First(content, rx, replacement) ==
    LET template == ParseTemplate(replacement, 1, <<>>)
        ms == FindIter(rx, content)
        first == IF ms = <<>> THEN <<>> ELSE <<ms[1]>>
    IN  IF template.status = "ok"
        THEN [status |-> "ok", new_content |-> SubSpans(content, first, template.text, 0),
              num_replacements |-> Len(first)]
        ELSE [status |-> "re.error", new_content |-> content, num_replacements |-> 0]

\* ReplaceEngine._replace_in_content: pattern.subn(replacement, content)
replace_in_content(content, rx, replacement) ==
    LET template == ParseTemplate(replacement, 1, <<>>)
        ms == FindIter(rx, content)
    IN  IF template.status = "ok"
        THEN [status |-> "ok", new_content |-> SubSpans(content, ms, template.text, 0),
              num_replacements |-> Len(ms)]
        ELSE [status |-> "re.error", new_content |-> content, num_replacements |-> 0]

\* the loop of pattern_replace over files_to_process; `batch` is
\* modified_files_in_batch
RECURSIVE PatternLoop(_, _, _, _, _, _)
PatternLoop(S, st, batch, files, rx, replacement) ==
    IF Len(files) = 0
    THEN [raised |-> "", store |-> S,
          stats |-> [st EXCEPT !.files_modified = Cardinality(batch)]]
    ELSE LET file_path == files[1]
         IN  IF file_path \notin DOMAIN S.content_map
             THEN PatternLoop(S, st, batch, Tail(files), rx, replacement)
             ELSE LET content == S.content_map[file_path]
                      r == replace_in_content(content, rx, replacement)
                      u == update_content(S, file_path, r.new_content)
                  IN  IF r.status # "ok"
                      THEN [raised |-> r.status, store |-> S, stats |-> st]
                      ELSE IF r.num_replacements = 0
                      THEN PatternLoop(S, st, batch, Tail(files), rx, replacement)
                      ELSE IF u.ok
                      THEN PatternLoop(u.store,
                               [st EXCEPT
                                   !.total_replacements = @ + r.num_replacements,
                                   !.characters_changed =
                                       @ + Len(r.new_content) - Len(content)],
                               batch \cup {file_path}, Tail(files), rx, replacement)
                      ELSE PatternLoop(S, [st EXCEPT !.failed_files = @ + 1],
                                       batch, Tail(files), rx, replacement)

\* ReplaceEngine.pattern_replace; files_to_process is NONE or a list of paths
PatternReplace(pattern, replacement, case_sensitive, regex_mode, whole_word, files_to_process) ==
    LET files == IF files_to_process = NONE THEN key_order ELSE files_to_process
        search_regex == compile_pattern(pattern, case_sensitive, regex_mode, whole_word)
        done == PatternLoop(Store, ZeroStats, {}, files, search_regex, replacement)
    IN  /\ UNCHANGED concVars
        /\ call' = [op |-> "pattern_replace", pattern |-> pattern,
                    replacement |-> replacement, case_sensitive |-> case_sensitive,
                    regex_mode |-> regex_mode, whole_word |-> whole_word,
                    files_to_process |-> files_to_process]
        /\ UNCHANGED engineVars
        /\ IF search_regex.status = "OverflowError"
           THEN /\ ret' = Raised("OverflowError")
                /\ UNCHANGED storeVars
           ELSE IF search_regex.status = "none"
           THEN /\ ret' = Returned(ZeroStats)
                /\ UNCHANGED storeVars
           ELSE /\ WithinHistoryBound(done.store)
                /\ StoreBecomes(done.store)
                /\ ret' = IF done.raised = "" THEN Returned(done.stats)
                          ELSE Raised(done.raised)

\* the keys of grouped_results, in the order a dict keeps them
RECURSIVE GroupOrder(_, _)
GroupOrder(results, seen) ==
    IF Len(results) = 0 THEN <<>>
    ELSE IF results[1].file_path \in seen THEN GroupOrder(Tail(results), seen)
    ELSE <<results[1].file_path>>
         \o GroupOrder(Tail(results), seen \cup {results[1].file_path})

\* grouped_results[file_path]
RECURSIVE ResultsOf(_, _)
ResultsOf(results, file_path) ==
    IF Len(results) = 0 THEN <<>>
    ELSE IF results[1].file_path = file_path
         THEN <<results[1]>> \o ResultsOf(Tail(results), file_path)
         ELSE ResultsOf(Tail(results), file_path)

\* the sort key (line_number, start_pos) of a is below that of b
KeyBelow(a, b) ==
    \/ a.line_number < b.line_number
    \/ a.line_number = b.line_number /\ a.start_pos < b.start_pos

\* r put into a list sorted downwards, behind the results whose key is not below its own
RECURSIVE InsertDescending(_, _)
InsertDescending(sorted, r) ==
    IF Len(sorted) = 0 THEN <<r>>
    ELSE IF KeyBelow(sorted[1], r) THEN <<r>> \o sorted
    ELSE <<sorted[1]>> \o InsertDescending(Tail(sorted), r)

RECURSIVE SortDescending(_, _)
SortDescending(results, sorted) ==
    IF Len(results) = 0 THEN sorted
    ELSE SortDescending(Tail(results), InsertDescending(sorted, results[1]))

\* the list is applied in the order it was given
sort_results_Unsorted(results) == results

\* results.sort(key=lambda r: (r.line_number, r.start_pos), reverse=True)
sort_results(results) == SortDescending(results, <<>>)

\* every result is applied, whatever the line holds now
StillThere_Always(line, res) == TRUE

\* the check of replace_by_results that the recorded text is still at the recorded place
StillThere(line, res) == PySlice(line, res.start_pos, res.end_pos) = res.match_text

\* the inner loop of replace_by_results over the results of one file
RECURSIVE ApplyResults(_, _, _, _)
ApplyResults(lines, results, new_text, file_replacements) ==
    IF Len(results) = 0
    THEN [lines |-> lines, file_replacements |-> file_replacements]
    ELSE LET res == results[1]
             line_idx == res.line_number - 1
         IN  IF /\ 0 <= line_idx
                /\ line_idx < Len(lines)
                /\ StillThere(lines[line_idx + 1], res)
             THEN ApplyResults(
                      [lines EXCEPT ![line_idx + 1] =
                          PySlice(@, 0, res.start_pos) \o new_text
                          \o PySlice(@, res.end_pos, Len(@))],
                      Tail(results), new_text, file_replacements + 1)
             ELSE ApplyResults(lines, Tail(results), new_text, file_replacements)

\* the outer loop of replace_by_results over grouped_results
RECURSIVE ResultsLoop(_, _, _, _, _)
ResultsLoop(S, st, files, results, new_text) ==
    IF Len(files) = 0 THEN [store |-> S, stats |-> st]
    ELSE LET file_path == files[1]
             skip == \/ file_path \notin DOMAIN S.content_map
                     \/ S.content_map[file_path] = <<>>
             applied == ApplyResults(SplitLines(S.content_map[file_path]),
                                     sort_results(ResultsOf(results, file_path)),
                                     new_text, 0)
             u == update_content(S, file_path, JoinLines(applied.lines))
         IN  IF skip \/ applied.file_replacements = 0 \/ ~u.ok
             THEN ResultsLoop(S, st, Tail(files), results, new_text)
             ELSE ResultsLoop(u.store,
                      [st EXCEPT
                          !.total_replacements = @ + applied.file_replacements,
                          !.files_modified = @ + 1],
                      Tail(files), results, new_text)

\* ReplaceEngine.replace_by_results(results_to_replace, new_text)
ReplaceByResults(results_to_replace, new_text) ==
    LET done == ResultsLoop(Store, ZeroStats, GroupOrder(results_to_replace, {}),
                            results_to_replace, new_text)
    IN  /\ WithinHistoryBound(done.store)
        /\ UNCHANGED concVars
        /\ call' = [op |-> "replace_by_results", results |-> results_to_replace,
                    new_text |-> new_text]
        /\ ret' = Returned(done.stats)
        /\ StoreBecomes(done.store)
        /\ UNCHANGED engineVars

---------------------------------------------------------------------------
(* The inputs of the engines *)

eAaA == <<"a", " ", "A", NL, "a">>
eBa == <<"b", "a">>

EngineContents == {eAaA, eBa}

\* the corpus of the search-cache specification
SearchPaths == {"p1"}

\* the default of search's context_size parameter
DefaultContextSize == 30

Query(pattern, case_sensitive, regex_mode, whole_word) ==
    [pattern |-> pattern, case_sensitive |-> case_sensitive,
     regex_mode |-> regex_mode, whole_word |-> whole_word]

qLiteral == Query(<<"a">>, FALSE, FALSE, FALSE)
qCaseSensitive == Query(<<"a">>, TRUE, FALSE, FALSE)
qUnbalanced == Query(<<LPAREN, "a">>, FALSE, TRUE, FALSE)
qHugeRepeat == Query(<<"a", HUGE_REPEAT>>, FALSE, TRUE, FALSE)

Queries == {qLiteral, qCaseSensitive, qUnbalanced, qHugeRepeat}

NewTexts == {<<>>, <<"b", "b">>, <<"a">>, <<NUL>>}

\* the longest result list that is tried in every order
MaxPermuted == 3

Reverse(seq) == [i \in 1..Len(seq) |-> seq[Len(seq) + 1 - i]]

\* the orders in which a result list is handed to replace_by_results
Orders(results) ==
    IF Len(results) <= MaxPermuted
    THEN {[i \in 1..Len(results) |-> results[f[i]]] :
             f \in {g \in [1..Len(results) -> 1..Len(results)] :
                       \A i, j \in 1..Len(results) : g[i] = g[j] => i = j}}
    ELSE {results, Reverse(results)}

\* the Store and the search cache; patterns that do not compile go to both engines
NextSearch ==
    \/ \E p \in SearchPaths \ DOMAIN content_map, x \in EngineContents : Add(p, x)
    \/ \E p \in SearchPaths, x \in EngineContents : Update(p, x)
    \/ \E q \in Queries :
          Search(q.pattern, q.case_sensitive, q.regex_mode, q.whole_word,
                 DefaultContextSize)
    \/ ClearCache
    \/ \E q \in {qUnbalanced, qHugeRepeat}, t \in NewTexts :
          PatternReplace(q.pattern, t, q.case_sensitive, q.regex_mode,
                         q.whole_word, NONE)

SpecSearch == Init /\ [][NextSearch]_vars

\* result lists captured by a search and handed, in any order, to replace_by_results
NextReplace ==
    \/ \E p \in Paths \ DOMAIN content_map, x \in EngineContents : Add(p, x)
    \/ Search(qLiteral.pattern, qLiteral.case_sensitive, qLiteral.regex_mode,
              qLiteral.whole_word, DefaultContextSize)
    \/ \E k \in DOMAIN search_cache, t \in NewTexts :
          \E r \in Orders(search_cache[k]) : ReplaceByResults(r, t)

SpecReplace == Init /\ [][NextReplace]_vars

\* the Store alone, every path added once
Next ==
    \/ \E p \in Paths \ DOMAIN content_map, x \in StoreContents : Add(p, x)
    \/ \E p \in Paths, x \in StoreContents : Update(p, x)
    \/ \E p \in Paths, s \in Steps : Rollback(p, s)

Spec == Init /\ [][Next]_vars

\* the Store alone, add_file also called on paths that are already in the corpus
NextReadd ==
    \/ \E p \in Paths, x \in StoreContents :
          stats.total_files < MaxAdds /\ Add(p, x)
    \/ \E p \in Paths, x \in StoreContents : Update(p, x)
    \/ \E p \in Paths, s \in Steps : Rollback(p, s)

SpecReadd == Init /\ [][NextReadd]_vars

---------------------------------------------------------------------------
(* Properties of the Store *)

\* every non-empty slice of every line of the current contents
SlicesOfCorpus ==
    UNION {LET lines == SplitLines(content_map[p])
           IN  UNION {{Slice(lines[n], i, j) : i \in 1..Len(lines[n]), j \in 1..Len(lines[n])}
                      : n \in 1..Len(lines)}
           : p \in DOMAIN content_map}

\* the words a lookup is tried with
LookupWords == (DOMAIN file_index) \cup (SlicesOfCorpus \ {<<>>})

\* the <<p, line, col>> at which the case-folded token w occurs in get(p):
\* a maximal run of word characters of a line whose lower case is w
Occurrences(p, w) ==
    LET lines == SplitLines(content_map[p])
    IN  {<<p, n, i - 1>> : <<n, i>> \in
            {<<n, i>> \in (1..Len(lines)) \X (1..Len(content_map[p])) :
                /\ i <= Len(lines[n])
                /\ \E j \in i..Len(lines[n]) :
                      /\ \A k \in i..j : IsWordChar(lines[n][k])
                      /\ i = 1 \/ ~IsWordChar(lines[n][i - 1])
                      /\ j = Len(lines[n]) \/ ~IsWordChar(lines[n][j + 1])
                      /\ Lower(Slice(lines[n], i, j)) = Lower(w)}}

NoDuplicates(lst) == \A i, j \in 1..Len(lst) : lst[i] = lst[j] => i = j

IndexExact ==
    \A w \in LookupWords :
        /\ NoDuplicates(search_index(w))
        /\ SeqToSet(search_index(w)) = UNION {Occurrences(p, w) : p \in DOMAIN content_map}

\* the postings of file q in lst, in order
RECURSIVE OnlyFile(_, _)
OnlyFile(lst, q) ==
    IF Len(lst) = 0 THEN <<>>
    ELSE IF lst[1][1] = q THEN <<lst[1]>> \o OnlyFile(Tail(lst), q)
    ELSE OnlyFile(Tail(lst), q)

PostingsOf(index, w, q) == IF w \in DOMAIN index THEN OnlyFile(index[w], q) ELSE <<>>

OtherPathsUntouched ==
    \A q \in Paths \ {call'.path} :
        \A w \in (DOMAIN file_index) \cup (DOMAIN file_index') :
            PostingsOf(file_index', w, q) = PostingsOf(file_index, w, q)

\* C1: after the add of each path and any sequence of updates and rollbacks the
\* index lists, for every word, exactly the occurrences of its case-folded token in
\* the current contents, each once; and a call on one path leaves the postings of
\* every other path as they were.
C1_IndexExact ==
    /\ []IndexExact
    /\ [][OtherPathsUntouched]_vars

C1_Witness ==
    /\ call.op = "rollback" /\ ret = Returned(TRUE)
    /\ DOMAIN content_map = Paths
    /\ \E w \in DOMAIN file_index :
          {file_index[w][i][1] : i \in 1..Len(file_index[w])} = Paths

\* C2: rollback(p, s) with 1 <= s < n on a history of n records returns true, leaves
\* n - s records and restores the "previous" value of the last record it popped.
C2_RollbackRestoresPrevious ==
    [][(/\ call'.op = "rollback"
        /\ call'.steps >= 1
        /\ call'.steps < Len(History(call'.path)))
       => LET p == call'.path
              n == Len(History(p))
              s == call'.steps
          IN  /\ ret' = Returned(TRUE)
              /\ Len(change_history'[p]) = n - s
              /\ content_map'[p] = History(p)[n - s + 1][1]]_vars

\* C3: rollback(p, k) with k at least the length of p's non-empty history returns
\* true, restores the original snapshot, empties the history and unmarks p.
C3_FullRollback ==
    [][(/\ call'.op = "rollback"
        /\ History(call'.path) # <<>>
        /\ call'.steps >= Len(History(call'.path)))
       => LET p == call'.path
          IN  /\ ret' = Returned(TRUE)
              /\ content_map'[p] = original_content[p]
              /\ original_content'[p] = original_content[p]
              /\ change_history'[p] = <<>>
              /\ p \notin modified_files']_vars

C3_Witness ==
    /\ call.op = "rollback" /\ ret = Returned(TRUE) /\ call.steps >= 2
    /\ History(call.path) = <<>>
    /\ content_map[call.path] = original_content[call.path]
    /\ call.path \notin modified_files

\* C4: an update called again with the same path and content returns false and
\* changes nothing in the Store.
C4_UpdateIdempotent ==
    [][(/\ call.op = "update"
        /\ call'.op = "update"
        /\ call'.path = call.path
        /\ call'.content = call.content)
       => (ret' = Returned(FALSE) /\ UNCHANGED storeVars)]_vars

C4_Witness ==
    /\ call.op = "update" /\ ret = Returned(FALSE)
    /\ call.path \in DOMAIN content_map
    /\ content_map[call.path] = call.content
    /\ History(call.path) # <<>>
    /\ History(call.path)[Len(History(call.path))][2] = call.content

\* the call made by this step is one the Store must reject
RejectedCall ==
    \/ call'.op = "add" /\ HasNull(call'.content)
    \/ call'.op = "update"
         /\ (call'.path \notin DOMAIN content_map \/ HasNull(call'.content))
    \/ call'.op = "rollback"
         /\ (History(call'.path) = <<>> \/ call'.steps < 1)

\* C5: a rejected add, update or rollback returns false and leaves the whole Store
\* state unchanged.
C5_RejectedCallsChangeNothing ==
    [][RejectedCall => (ret' = Returned(FALSE) /\ UNCHANGED storeVars)]_vars

C5_Witness ==
    /\ call.op = "update" /\ ret = Returned(FALSE)
    /\ HasNull(call.content)
    /\ call.path \in DOMAIN content_map
    /\ modified_files # {}

\* C6: the history of a path never exceeds a fixed cap; stated for the caps that the
\* explored number of updates can tell apart.
C6_HistoryCapped ==
    \E cap \in 1..(MaxHistory - 1) : \A p \in Paths : Len(History(p)) <= cap

\* C7: every corpus key has one current value and one original snapshot, and the
\* snapshot of a path never changes once the path was added.
C7_OriginalImmutable ==
    /\ [](DOMAIN content_map = DOMAIN original_content)
    /\ [][\A p \in DOMAIN original_content :
             /\ p \in DOMAIN original_content'
             /\ original_content'[p] = original_content[p]]_vars

---------------------------------------------------------------------------
(* Properties of the engines *)

KeyOfCall(c) ==
    generate_cache_key(c.pattern, c.case_sensitive, c.regex_mode, c.whole_word)

SearchRegexOf(c) ==
    build_search_regex(c.pattern, c.case_sensitive, c.regex_mode, c.whole_word)

\* what a scan of the current contents gives for the query of call c
FreshScan(c) == SearchFiles(Store, key_order, SearchRegexOf(c), c.context_size)

\* C8: a search whose key is cached returns the cached list and scans nothing, also
\* after Store updates; a cached list stays as it is until clear_cache, which
\* empties the cache; a search whose key is not cached scans the current contents
\* and caches what it returns.
C8_CachedUntilCleared ==
    /\ [][(call'.op = "search" /\ KeyOfCall(call') \in DOMAIN search_cache)
          => /\ ret' = Returned(search_cache[KeyOfCall(call')])
             /\ UNCHANGED search_cache]_vars
    /\ [][call'.op # "clear_cache"
          => \A k \in DOMAIN search_cache :
                k \in DOMAIN search_cache' /\ search_cache'[k] = search_cache[k]]_vars
    /\ [][call'.op = "clear_cache" => search_cache' = <<>>]_vars
    /\ [][(/\ call'.op = "search"
           /\ KeyOfCall(call') \notin DOMAIN search_cache
           /\ SearchRegexOf(call').status = "ok")
          => /\ ret' = Returned(FreshScan(call'))
             /\ search_cache' = Put(search_cache, KeyOfCall(call'), FreshScan(call'))]_vars

\* a search answered from the cache with a list the current contents do not give
C8_Witness ==
    /\ call.op = "search"
    /\ KeyOfCall(call) \in DOMAIN search_cache
    /\ ret = Returned(search_cache[KeyOfCall(call)])
    /\ ret.value # FreshScan(call)
    /\ ret.value # <<>>

\* re.compile does not accept the pattern of call c
DoesNotCompile(c) ==
    c.regex_mode /\ ParseRegex(c.pattern, 1, <<>>, FALSE, FALSE).status # "ok"

\* C9: with a pattern that does not compile nothing is raised; search returns the
\* empty list and caches nothing, pattern_replace returns all-zero stats, and the
\* Store is left unchanged.
C9_BadPatternSoftFailure ==
    [][(call'.op \in {"search", "pattern_replace"} /\ DoesNotCompile(call'))
       => /\ ret'.raised = ""
          /\ UNCHANGED storeVars
          /\ UNCHANGED search_cache
          /\ call'.op = "search" => ret'.value = <<>>
          /\ call'.op = "pattern_replace" => ret'.value = ZeroStats]_vars

\* the list one search of the current corpus gives, for the queries that compile
FreshLists ==
    {SearchFiles(Store, key_order,
                 build_search_regex(q.pattern, q.case_sensitive, q.regex_mode,
                                    q.whole_word),
                 DefaultContextSize) :
        q \in {q \in Queries : ~DoesNotCompile(q)}}

IsReordering(a, b) ==
    Len(a) = Len(b) /\ SeqToSet(a) = SeqToSet(b) /\ NoDuplicates(a)

\* the spans of the results of `fresh` (in scan order) on line n of file p
RECURSIVE SpansOn(_, _, _)
SpansOn(fresh, p, n) ==
    IF Len(fresh) = 0 THEN <<>>
    ELSE IF fresh[1].file_path = p /\ fresh[1].line_number = n
         THEN <<[start |-> fresh[1].start_pos, end |-> fresh[1].end_pos]>>
              \o SpansOn(Tail(fresh), p, n)
         ELSE SpansOn(Tail(fresh), p, n)

\* the content of p with every span matched by `fresh` replaced by new_text
ReplacedContent(p, fresh, new_text) ==
    LET lines == SplitLines(content_map[p])
    IN  JoinLines([n \in 1..Len(lines) |->
                      SubSpans(lines[n], SpansOn(fresh, p, n), new_text, 0)])

\* the Store takes the replaced content of p: it is valid and differs from get(p)
ReplacementAccepted(p, fresh, new_text) ==
    /\ ~HasNull(ReplacedContent(p, fresh, new_text))
    /\ ReplacedContent(p, fresh, new_text) # content_map[p]

RECURSIVE CountAccepted(_, _, _)
CountAccepted(files, fresh, new_text) ==
    IF Len(files) = 0 THEN 0
    ELSE (IF ReplacementAccepted(files[1], fresh, new_text)
          THEN Len(ResultsOf(fresh, files[1])) ELSE 0)
         + CountAccepted(Tail(files), fresh, new_text)

\* this step is replace_by_results on a reordering of the fresh list `fresh`
ReplacesFresh(fresh) ==
    /\ call'.op = "replace_by_results"
    /\ fresh # <<>>
    /\ IsReordering(call'.results, fresh)

---------------------------------------------------------------------------
(* Results that went stale: updates between the search and replace_by_results *)

eAb == <<"a", " ", "b">>

\* the contents the file takes between the capture and the replacement
DriftContents == {eAaA, eAb, eBa}

NextDrift ==
    \/ \E p \in SearchPaths \ DOMAIN content_map : Add(p, eAaA)
    \/ \E p \in SearchPaths, x \in DriftContents : Update(p, x)
    \/ Search(qLiteral.pattern, qLiteral.case_sensitive, qLiteral.regex_mode,
              qLiteral.whole_word, DefaultContextSize)
    \/ \E k \in DOMAIN search_cache, t \in NewTexts :
          \E r \in Orders(search_cache[k]) : ReplaceByResults(r, t)

SpecDrift == Init /\ [][NextDrift]_vars

\* the recorded text of result r is at the recorded place of the current content
LiveResult(r) ==
    /\ r.file_path \in DOMAIN content_map
    /\ LET lines == SplitLines(content_map[r.file_path])
       IN  /\ r.line_number <= Len(lines)
           /\ r.end_pos <= Len(lines[r.line_number])
           /\ Slice(lines[r.line_number], r.start_pos + 1, r.end_pos) = r.match_text

\* the results of `captured` that are live, in the order of the capture
RECURSIVE LiveResults(_)
LiveResults(captured) ==
    IF Len(captured) = 0 THEN <<>>
    ELSE IF LiveResult(captured[1])
         THEN <<captured[1]>> \o LiveResults(Tail(captured))
         ELSE LiveResults(Tail(captured))

\* the content of p with the spans of the live results replaced and every other
\* character, the text at the stale results included, left as it is
ContentWithout(p, captured, new_text) ==
    ReplacedContent(p, LiveResults(captured), new_text)

---------------------------------------------------------------------------
(* ReplaceEngine: replace and undo_last_replacement *)

\* self.max_history
max_history == 50

\* start_pos may lie behind end_pos
BoundsOk_Loose(line, start_pos, end_pos) == 0 <= start_pos /\ end_pos <= Len(line)

\* 0 <= start_pos <= end_pos <= len(original_line)
BoundsOk(line, start_pos, end_pos) ==
    0 <= start_pos /\ start_pos <= end_pos /\ end_pos <= Len(line)

\* the history would grow past max_history
Remember_Unbounded(history, record) == Append(history, record)

\* the history after the append of record, limited to max_history records
Remember(history, record) ==
    LET appended == Append(history, record)
    IN  IF Len(appended) > max_history THEN Tail(appended) ELSE appended

\* ReplaceEngine.replace(file_path, line_number, start_pos, end_pos, new_text)
Replace(file_path, line_number, start_pos, end_pos, new_text) ==
    /\ UNCHANGED concVars
    /\ call' = [op |-> "replace", path |-> file_path, line_number |-> line_number,
                start_pos |-> start_pos, end_pos |-> end_pos, new_text |-> new_text]
    /\ UNCHANGED search_cache
    /\ IF file_path \notin DOMAIN content_map
       THEN ret' = Returned(FALSE) /\ UNCHANGED <<storeVars, replacement_history>>
       ELSE LET lines == SplitLines(content_map[file_path])
            IN  IF ~(1 <= line_number /\ line_number <= Len(lines))
                THEN ret' = Returned(FALSE) /\ UNCHANGED <<storeVars, replacement_history>>
                ELSE LET original_line == lines[line_number]
                         new_line == PySlice(original_line, 0, start_pos) \o new_text
                                     \o PySlice(original_line, end_pos, Len(original_line))
                         new_content == JoinLines([lines EXCEPT ![line_number] = new_line])
                         u == update_content(Store, file_path, new_content)
                     IN  IF ~BoundsOk(original_line, start_pos, end_pos)
                         THEN ret' = Returned(FALSE)
                              /\ UNCHANGED <<storeVars, replacement_history>>
                         ELSE /\ WithinHistoryBound(u.store)
                              /\ StoreBecomes(u.store)
                              /\ ret' = Returned(u.ok)
                              /\ replacement_history' =
                                    IF u.ok
                                    THEN Remember(replacement_history,
                                                  <<file_path, line_number, original_line>>)
                                    ELSE replacement_history

\* the record stays in the history when the undo fails
Front_Keep(history) == history

\* the history without its last record: replacement_history.pop()
Front(history) == SubSeq(history, 1, Len(history) - 1)

\* an undo that puts the recorded line in place of the whole file
UndoLastReplacement_WholeFile ==
    /\ UNCHANGED concVars
    /\ call' = [op |-> "undo_last_replacement"]
    /\ UNCHANGED search_cache
    /\ IF replacement_history = <<>>
       THEN ret' = Returned(FALSE) /\ UNCHANGED <<storeVars, replacement_history>>
       ELSE LET record == replacement_history[Len(replacement_history)]
                u == update_content(Store, record[1], record[3])
            IN  /\ replacement_history' = Front(replacement_history)
                /\ WithinHistoryBound(u.store)
                /\ StoreBecomes(u.store)
                /\ ret' = Returned(u.ok)

\* ReplaceEngine.undo_last_replacement()
UndoLastReplacement ==
    /\ UNCHANGED concVars
    /\ call' = [op |-> "undo_last_replacement"]
    /\ UNCHANGED search_cache
    /\ IF replacement_history = <<>>
       THEN ret' = Returned(FALSE) /\ UNCHANGED <<storeVars, replacement_history>>
       ELSE LET record == replacement_history[Len(replacement_history)]
                file_path == record[1]
                line_number == record[2]
                original_line == record[3]
            IN  /\ replacement_history' = Front(replacement_history)
                /\ IF file_path \notin DOMAIN content_map
                   THEN ret' = Returned(FALSE) /\ UNCHANGED storeVars
                   ELSE LET lines == SplitLines(content_map[file_path])
                            new_content ==
                                JoinLines([lines EXCEPT ![line_number] = original_line])
                            u == update_content(Store, file_path, new_content)
                        IN  IF ~(1 <= line_number /\ line_number <= Len(lines))
                            THEN ret' = Returned(FALSE) /\ UNCHANGED storeVars
                            ELSE /\ WithinHistoryBound(u.store)
                                 /\ StoreBecomes(u.store)
                                 /\ ret' = Returned(u.ok)

\* the arguments of replace
LineNumbers == 0..2
Columns == 0..2
ReplaceTexts == {<<"b">>, <<NUL>>}

\* the contents of the file that is edited in place
ReplaceAtContents == {cAB, eBa}

\* one file edited in place and undone; an update may shorten the file in between
NextReplaceAt ==
    \/ \E p \in SearchPaths \ DOMAIN content_map, x \in ReplaceAtContents : Add(p, x)
    \/ \E p \in SearchPaths : Update(p, eBa)
    \/ \E n \in LineNumbers, s \in Columns, e \in Columns, t \in ReplaceTexts :
          \E p \in SearchPaths : Replace(p, n, s, e, t)
    \/ \E p \in Paths \ SearchPaths, t \in ReplaceTexts : Replace(p, 1, 0, 0, t)
    \/ UndoLastReplacement

SpecReplaceAt == Init /\ [][NextReplaceAt]_vars

---------------------------------------------------------------------------
(* Properties of replace and undo_last_replacement *)

\* the number of characters of the content before line n
RECURSIVE LineOffset(_, _)
LineOffset(lines, n) ==
    IF n = 1 THEN 0 ELSE LineOffset(lines, n - 1) + Len(lines[n - 1]) + 1

\* the path exists, the line exists and the columns lie in it, in this order
ReplaceLegal(c) ==
    /\ c.path \in DOMAIN content_map
    /\ 1 <= c.line_number
    /\ c.line_number <= Len(SplitLines(content_map[c.path]))
    /\ 0 <= c.start_pos
    /\ c.start_pos <= c.end_pos
    /\ c.end_pos <= Len(SplitLines(content_map[c.path])[c.line_number])

\* the content with the characters start_pos..end_pos of the line replaced by new_text
Spliced(c) ==
    LET content == content_map[c.path]
        offset == LineOffset(SplitLines(content), c.line_number)
    IN  SubSeq(content, 1, offset + c.start_pos) \o c.new_text
        \o SubSeq(content, offset + c.end_pos + 1, Len(content))

\* Store.update takes content x for path p
StoreTakes(p, x) == ~HasNull(x) /\ x # content_map[p]

\* C12: replace returns True exactly when the path exists, the line exists, the
\* columns satisfy 0 <= start <= end <= length of the line and the Store accepts
\* the new content; then the content is the old one with that span of that line
\* replaced by new_text, every other path is unchanged and one record with the
\* whole original line is appended to the replacement history; when it returns
\* False neither the Store nor the replacement history changes.
C12_ReplaceAt ==
    [][call'.op = "replace"
       => IF ReplaceLegal(call') /\ StoreTakes(call'.path, Spliced(call'))
          THEN /\ ret' = Returned(TRUE)
               /\ content_map' = [content_map EXCEPT ![call'.path] = Spliced(call')]
               /\ Len(replacement_history) < max_history
                  => replacement_history' =
                        Append(replacement_history,
                               <<call'.path, call'.line_number,
                                 SplitLines(content_map[call'.path])[call'.line_number]>>)
          ELSE /\ ret' = Returned(FALSE)
               /\ UNCHANGED <<storeVars, replacement_history>>]_vars

\* an accepted pure insertion into the second line
C12_Witness ==
    /\ call.op = "replace"
    /\ ret = Returned(TRUE)
    /\ call.start_pos = call.end_pos
    /\ call.line_number = 2
    /\ replacement_history # <<>>
    /\ replacement_history[Len(replacement_history)] = <<call.path, 2, <<"b">>>>
    /\ Len(content_map[call.path]) = 4

\* the line of the most recent record is beyond the last line of its file
RecordedLineGone ==
    LET record == replacement_history[Len(replacement_history)]
    IN  /\ record[1] \in DOMAIN content_map
        /\ record[2] > Len(SplitLines(content_map[record[1]]))

\* the content undo_last_replacement hands to the Store: the recorded line put back
Restored ==
    LET record == replacement_history[Len(replacement_history)]
        lines == SplitLines(content_map[record[1]])
    IN  JoinLines([n \in 1..Len(lines) |-> IF n = record[2] THEN record[3] ELSE lines[n]])

\* C13: undo_last_replacement returns False and changes neither the Store nor the
\* replacement history when the history is empty or the recorded line is beyond the
\* last line of the file; otherwise it pops the most recent record and restores
\* the recorded line through update_content.
C13_UndoFailsWithoutMutation ==
    [][call'.op = "undo_last_replacement"
       => IF replacement_history = <<>> \/ RecordedLineGone
          THEN /\ ret' = Returned(FALSE)
               /\ UNCHANGED <<storeVars, replacement_history>>
          ELSE LET p == replacement_history[Len(replacement_history)][1]
               IN  /\ replacement_history' = Front(replacement_history)
                   /\ ret' = Returned(StoreTakes(p, Restored))
                   /\ content_map' =
                         IF StoreTakes(p, Restored)
                         THEN [content_map EXCEPT ![p] = Restored]
                         ELSE content_map]_vars

---------------------------------------------------------------------------
(* Whole-word matching *)

\* "The cat sat. Category error."
eCategory ==
    <<"T", "h", "e", " ", "c", "a", "t", " ", "s", "a", "t", ".", " ", "C",
      "a", "t", "e", "g", "o", "r", "y", " ", "e", "r", "r", "o", "r", ".">>

\* "cat cats"
eCats == <<"c", "a", "t", " ", "c", "a", "t", "s">>

WholeWordContents == {eCategory, eCats}

pCat == <<"c", "a", "t">>
tDog == <<"d", "o", "g">>

\* the pattern "cat" as a whole word, in both modes, with and without regard to case
CatQueries == {Query(pCat, cs, rm, TRUE) : cs \in BOOLEAN, rm \in BOOLEAN}

NextWholeWord ==
    \/ \E p \in SearchPaths \ DOMAIN content_map, x \in WholeWordContents : Add(p, x)
    \/ \E q \in {q \in CatQueries : ~q.case_sensitive} :
          Search(q.pattern, q.case_sensitive, q.regex_mode, q.whole_word,
                 DefaultContextSize)
    \/ \E q \in CatQueries :
          PatternReplace(q.pattern, tDog, q.case_sensitive, q.regex_mode,
                         q.whole_word, NONE)

SpecWholeWord == Init /\ [][NextWholeWord]_vars

\* word is at 0-based position pos of text, with or without regard to case
WordAt(text, word, pos, case_sensitive) ==
    /\ pos + Len(word) <= Len(text)
    /\ \A i \in 1..Len(word) :
          IF case_sensitive THEN text[pos + i] = word[i]
          ELSE LowerChar(text[pos + i]) = LowerChar(word[i])

\* no word character right before the 0-based position pos, resp. right at it
FreeBefore(text, pos) == pos = 0 \/ ~IsWordChar(text[pos])
FreeAfter(text, pos) == pos = Len(text) \/ ~IsWordChar(text[pos + 1])

\* the spans of the free-standing occurrences of word in text, left to right
RECURSIVE FreeStanding(_, _, _, _)
FreeStanding(text, word, pos, case_sensitive) ==
    IF pos + Len(word) > Len(text) THEN <<>>
    ELSE IF /\ WordAt(text, word, pos, case_sensitive)
            /\ FreeBefore(text, pos)
            /\ FreeAfter(text, pos + Len(word))
         THEN <<[start |-> pos, end |-> pos + Len(word)]>>
              \o FreeStanding(text, word, pos + Len(word), case_sensitive)
         ELSE FreeStanding(text, word, pos + 1, case_sensitive)

\* the spans of the results of a search, as (line, start, end)
SpansOfResults(results) ==
    [i \in 1..Len(results) |->
        <<results[i].line_number, results[i].start_pos, results[i].end_pos>>]

\* the free-standing occurrences in the lines of a content, as (line, start, end)
RECURSIVE FreeStandingInLines(_, _, _, _)
FreeStandingInLines(lines, n, word, case_sensitive) ==
    IF n > Len(lines) THEN <<>>
    ELSE LET found == FreeStanding(lines[n], word, 0, case_sensitive)
         IN  [i \in 1..Len(found) |-> <<n, found[i].start, found[i].end>>]
             \o FreeStandingInLines(lines, n + 1, word, case_sensitive)

\* C14: with whole_word set, in literal mode and in regex mode alike, a search that
\* scans finds exactly the occurrences delimited by word boundaries, and
\* pattern_replace replaces exactly those and counts them.
C14_WholeWordInBothModes ==
    /\ [][(/\ call'.op = "search"
           /\ call'.whole_word
           /\ KeyOfCall(call') \notin DOMAIN search_cache)
          => /\ ret'.raised = ""
             /\ \A p \in DOMAIN content_map :
                   SpansOfResults(ResultsOf(ret'.value, p))
                       = FreeStandingInLines(SplitLines(content_map[p]), 1,
                                             call'.pattern, call'.case_sensitive)]_vars
    /\ [][(call'.op = "pattern_replace" /\ call'.whole_word)
          => /\ ret'.raised = ""
             /\ \A p \in DOMAIN content_map :
                   LET found == FreeStanding(content_map[p], call'.pattern, 0,
                                             call'.case_sensitive)
                   IN  /\ content_map'[p]
                             = SubSpans(content_map[p], found, call'.replacement, 0)
                       /\ ret'.value.total_replacements = Len(found)]_vars

---------------------------------------------------------------------------
(* pattern_replace over several files *)

eB == <<"b">>

\* files with several matches, with one match and with none
BatchContents == {eAaA, eBa, eB}

\* files_to_process: every file, a list in another order, a list of one file
FileLists == {NONE, <<"p2", "p1">>, <<"p2">>}

\* the replacements: a longer text, the matched text itself, a text the Store rejects
BatchTexts == {<<"b", "b">>, <<"a">>, <<NUL>>}

NextBatch ==
    \/ \E p \in Paths \ DOMAIN content_map, x \in BatchContents : Add(p, x)
    \/ \E t \in BatchTexts, files \in FileLists :
          PatternReplace(qLiteral.pattern, t, qLiteral.case_sensitive,
                         qLiteral.regex_mode, qLiteral.whole_word, files)

SpecBatch == Init /\ [][NextBatch]_vars

\* character c is an occurrence of the one-character pattern of call cl
IsOccurrence(cl, c) ==
    IF cl.case_sensitive THEN c = cl.pattern[1] ELSE LowerChar(c) = LowerChar(cl.pattern[1])

\* the number of occurrences in a content
RECURSIVE OccurrenceCount(_, _)
OccurrenceCount(cl, content) ==
    IF Len(content) = 0 THEN 0
    ELSE (IF IsOccurrence(cl, content[1]) THEN 1 ELSE 0)
         + OccurrenceCount(cl, Tail(content))

\* the content with every occurrence replaced by the replacement
RECURSIVE Substituted(_, _)
Substituted(cl, content) ==
    IF Len(content) = 0 THEN <<>>
    ELSE (IF IsOccurrence(cl, content[1]) THEN cl.replacement ELSE <<content[1]>>)
         \o Substituted(cl, Tail(content))

\* the files the call works on: the listed ones, or every file of the corpus
TargetFiles(cl) ==
    (IF cl.files_to_process = NONE THEN DOMAIN content_map
     ELSE SeqToSet(cl.files_to_process)) \cap DOMAIN content_map

\* the target files with a substitution whose update the Store accepts, resp. rejects
AcceptedFiles(cl) ==
    {p \in TargetFiles(cl) :
        /\ OccurrenceCount(cl, content_map[p]) > 0
        /\ StoreTakes(p, Substituted(cl, content_map[p]))}

RejectedFiles(cl) ==
    {p \in TargetFiles(cl) :
        /\ OccurrenceCount(cl, content_map[p]) > 0
        /\ ~StoreTakes(p, Substituted(cl, content_map[p]))}

RECURSIVE SumOfCounts(_, _)
SumOfCounts(cl, files) ==
    IF files = {} THEN 0
    ELSE LET p == CHOOSE p \in files : TRUE
         IN  OccurrenceCount(cl, content_map[p]) + SumOfCounts(cl, files \ {p})

\* C15: pattern_replace treats every target file on its own: a file without a
\* substitution gets no update and no Change Record; a file whose update the Store
\* rejects adds one to failed_files and the files after it are still processed;
\* total_replacements is the sum of the substitution counts of the files whose
\* update was accepted and files_modified the number of those files.
C15_FilesIndependent ==
    [][call'.op = "pattern_replace"
       => /\ ret'.raised = ""
          /\ \A p \in DOMAIN content_map :
                /\ content_map'[p] = IF p \in AcceptedFiles(call')
                                     THEN Substituted(call', content_map[p])
                                     ELSE content_map[p]
                /\ Len(History(p)') = Len(History(p))
                                      + (IF p \in AcceptedFiles(call') THEN 1 ELSE 0)
          /\ ret'.value.failed_files = Cardinality(RejectedFiles(call'))
          /\ ret'.value.total_replacements = SumOfCounts(call', AcceptedFiles(call'))
          /\ ret'.value.files_modified = Cardinality(AcceptedFiles(call'))]_vars

\* a batch over two files: the update of the first one was rejected, the second one
\* was still processed and its three substitutions are the total
C15_Witness ==
    /\ call.op = "pattern_replace"
    /\ call.files_to_process = NONE
    /\ key_order = <<"p1", "p2">>
    /\ ret.raised = ""
    /\ ret.value.failed_files = 1
    /\ ret.value.files_modified = 1
    /\ ret.value.total_replacements = 3
    /\ Len(History("p1")) = 0
    /\ Len(History("p2")) = 1

---------------------------------------------------------------------------
(* SearchEngine: fuzzy_search *)

\* the row of zeros
FirstRow_Zero(n) == [j \in 1..(n + 1) |-> 0]

\* the row 0, 1, ..., n that the distance computation starts from
FirstRow(n) == [j \in 1..(n + 1) |-> j - 1]

Min3(a, b, c) == Min(a, Min(b, c))

\* the inner loop of _levenshtein_distance: current_row for character c1 of s1,
\* j is the 0-based position in s2
RECURSIVE LevenshteinRow(_, _, _, _, _)
LevenshteinRow(previous_row, current_row, c1, s2, j) ==
    IF j >= Len(s2) THEN current_row
    ELSE LET insertions == previous_row[j + 2] + 1
             deletions == current_row[j + 1] + 1
             substitutions == previous_row[j + 1] + (IF c1 # s2[j + 1] THEN 1 ELSE 0)
         IN  LevenshteinRow(previous_row,
                            Append(current_row, Min3(insertions, deletions, substitutions)),
                            c1, s2, j + 1)

\* the outer loop of _levenshtein_distance, i is the 0-based position in s1
RECURSIVE LevenshteinRows(_, _, _, _)
LevenshteinRows(s1, s2, i, previous_row) ==
    IF i >= Len(s1) THEN previous_row[Len(previous_row)]
    ELSE LevenshteinRows(s1, s2, i + 1,
                         LevenshteinRow(previous_row, <<i + 1>>, s1[i + 1], s2, 0))

\* SearchEngine._levenshtein_distance
RECURSIVE levenshtein_distance(_, _)
levenshtein_distance(s1, s2) ==
    IF Len(s1) < Len(s2) THEN levenshtein_distance(s2, s1)
    ELSE IF Len(s2) = 0 THEN Len(s1)
    ELSE LevenshteinRows(s1, s2, 0, FirstRow(Len(s2)))

\* the first window is taken, whatever its distance
WithinDistance_Any(substring, pattern, max_distance) == TRUE

\* the test of _find_closest_match on one window
WithinDistance(substring, pattern, max_distance) ==
    levenshtein_distance(substring, pattern) <= max_distance

\* SearchEngine._find_closest_match: the first window from i on that is near enough
RECURSIVE find_closest_match(_, _, _, _)
find_closest_match(text, pattern, i, max_distance) ==
    IF i >= Len(text) - Len(pattern) + 1 THEN -1
    ELSE IF WithinDistance(PySlice(text, i, i + Len(pattern)), pattern, max_distance)
         THEN i
         ELSE find_closest_match(text, pattern, i + 1, max_distance)

\* the while loop of fuzzy_search on one line; with an empty pattern the position
\* does not move after a match and the loop does not end
RECURSIVE FuzzyLine(_, _, _, _, _, _, _)
FuzzyLine(file_path, line_num, line, pattern, pos_in_line, max_distance, context_size) ==
    LET match_start == find_closest_match(Lower(line), Lower(pattern), pos_in_line,
                                          max_distance)
        match_end == match_start + Len(pattern)
        rest == FuzzyLine(file_path, line_num, line, pattern, match_end, max_distance,
                          context_size)
    IN  IF pos_in_line >= Len(line) \/ match_start = -1
        THEN [ends |-> TRUE, results |-> <<>>]
        ELSE IF match_end = pos_in_line
        THEN [ends |-> FALSE, results |-> <<>>]
        ELSE [ends |-> rest.ends,
              results |->
                 <<[file_path |-> file_path,
                    line_number |-> line_num,
                    start_pos |-> match_start,
                    end_pos |-> match_end,
                    match_text |-> PySlice(line, match_start, match_end),
                    context_before |->
                        PySlice(line, Max(0, match_start - context_size), match_start),
                    context_after |->
                        PySlice(line, match_end,
                                Min(Len(line), match_end + context_size))]>>
                 \o rest.results]

\* the loop of fuzzy_search over the lines of one file
RECURSIVE FuzzyLines(_, _, _, _, _, _)
FuzzyLines(file_path, lines, line_num, pattern, max_distance, context_size) ==
    IF line_num > Len(lines) THEN [ends |-> TRUE, results |-> <<>>]
    ELSE LET here == FuzzyLine(file_path, line_num, lines[line_num], pattern, 0,
                               max_distance, context_size)
             rest == FuzzyLines(file_path, lines, line_num + 1, pattern, max_distance,
                                context_size)
         IN  IF ~here.ends THEN here
             ELSE [ends |-> rest.ends, results |-> here.results \o rest.results]

\* the loop of fuzzy_search over content_map.items()
RECURSIVE FuzzyFiles(_, _, _, _, _)
FuzzyFiles(S, files, pattern, max_distance, context_size) ==
    IF Len(files) = 0 THEN [ends |-> TRUE, results |-> <<>>]
    ELSE LET here == FuzzyLines(files[1], SplitLines(S.content_map[files[1]]), 1,
                                pattern, max_distance, context_size)
             rest == FuzzyFiles(S, Tail(files), pattern, max_distance, context_size)
         IN  IF ~here.ends THEN here
             ELSE [ends |-> rest.ends, results |-> here.results \o rest.results]

\* a call that does not come back
NEVER_RETURNS == "never returns"

\* SearchEngine.fuzzy_search(pattern, max_distance, context_size)
FuzzySearch(pattern, max_distance, context_size) ==
    LET done == FuzzyFiles(Store, key_order, pattern, max_distance, context_size)
    IN  /\ UNCHANGED concVars
        /\ call' = [op |-> "fuzzy_search", pattern |-> pattern,
                    max_distance |-> max_distance, context_size |-> context_size]
        /\ ret' = IF done.ends THEN Returned(done.results) ELSE Raised(NEVER_RETURNS)
        /\ UNCHANGED <<storeVars, engineVars>>

\* "the quick teh fox"
eQuick ==
    <<"t", "h", "e", " ", "q", "u", "i", "c", "k", " ", "t", "e", "h", " ",
      "f", "o", "x">>

\* "Teh\nhe"
eTeh == <<"T", "e", "h", NL, "h", "e">>

FuzzyContents == {eQuick, eTeh, eCats}

pTeh == <<"t", "e", "h">>
pThe == <<"T", "h", "e">>

FuzzyPatterns == {pTeh, pThe, pCat}

\* the largest max_distance that is tried
MaxDistance == 2

NextFuzzy ==
    \/ \E p \in Paths \ DOMAIN content_map, x \in FuzzyContents : Add(p, x)
    \/ \E pattern \in FuzzyPatterns, d \in 0..MaxDistance :
          FuzzySearch(pattern, d, DefaultContextSize)

SpecFuzzy == Init /\ [][NextFuzzy]_vars


\* the least number of insertions, deletions and substitutions that turn a into b
RECURSIVE EditDistance(_, _)
EditDistance(a, b) ==
    IF Len(a) = 0 THEN Len(b)
    ELSE IF Len(b) = 0 THEN Len(a)
    ELSE IF a[1] = b[1] THEN EditDistance(Tail(a), Tail(b))
    ELSE 1 + Min3(EditDistance(Tail(a), b), EditDistance(a, Tail(b)),
                  EditDistance(Tail(a), Tail(b)))

\* the call is fuzzy_search("teh", 1) and the corpus is the line "the quick teh fox"
ScenarioC ==
    /\ call'.op = "fuzzy_search"
    /\ call'.pattern = pTeh
    /\ call'.max_distance = 1
    /\ key_order = <<"p1">>
    /\ content_map["p1"] = eQuick

MatchesOf(results) ==
    [i \in 1..Len(results) |->
        <<results[i].line_number, results[i].start_pos, results[i].end_pos,
          results[i].match_text>>]

\* C16 as stated: fuzzy_search("teh", 1) on "the quick teh fox" returns "the" at
\* columns 0..3 and "teh" at columns 10..13.
C16_ScenarioTwoResults ==
    [][ScenarioC
       => /\ ret'.raised = ""
          /\ MatchesOf(ret'.value) =
                << <<1, 0, 3, <<"t", "h", "e">>>>, <<1, 10, 13, <<"t", "e", "h">>>> >>]_vars

\* C16 amended: fuzzy_search("teh", 1) on "the quick teh fox" returns one result,
\* "teh" at columns 10..13; "the" is at distance 2 from "teh".  Every result of a
\* fuzzy search is a window of the length of the pattern whose lower-cased text is
\* within max_distance of the lower-cased pattern, and the results of a line do
\* not overlap.
C16_ScenarioOneResult ==
    /\ [][ScenarioC
          => /\ ret'.raised = ""
             /\ MatchesOf(ret'.value) = << <<1, 10, 13, <<"t", "e", "h">>>> >>
             /\ EditDistance(<<"t", "h", "e">>, pTeh) = 2]_vars
    /\ [][call'.op = "fuzzy_search"
          => /\ ret'.raised = ""
             /\ \A i \in 1..Len(ret'.value) :
                   LET r == ret'.value[i]
                   IN  /\ r.end_pos - r.start_pos = Len(call'.pattern)
                       /\ Len(r.match_text) = Len(call'.pattern)
                       /\ EditDistance(Lower(r.match_text), Lower(call'.pattern))
                             <= call'.max_distance
                       /\ \A j \in 1..(i - 1) :
                             LET q == ret'.value[j]
                             IN  (q.file_path = r.file_path
                                  /\ q.line_number = r.line_number)
                                 => q.end_pos <= r.start_pos]_vars

\* the scenario was run and gave the single result
C16_Witness ==
    /\ call.op = "fuzzy_search"
    /\ call.pattern = pTeh
    /\ call.max_distance = 1
    /\ key_order = <<"p1">>
    /\ content_map["p1"] = eQuick
    /\ Len(ret.value) = 1
    /\ ret.value[1].start_pos = 10

---------------------------------------------------------------------------
(* The scan of one search *)

\* "The cat sat on the mat.\n"
eMat ==
    <<"T", "h", "e", " ", "c", "a", "t", " ", "s", "a", "t", " ", "o", "n",
      " ", "t", "h", "e", " ", "m", "a", "t", ".", NL>>

eEmpty == <<>>

ScanContents == {eMat, eAaA, eEmpty}

qCat == Query(pCat, FALSE, FALSE, FALSE)
qStar == Query(<<"a", STAR>>, FALSE, TRUE, FALSE)

ScanQueries == {qCat, qLiteral, qStar}

\* context_size: shorter than the lines, and the default
ContextSizes == {1, DefaultContextSize}

NextScan ==
    \/ \E p \in SearchPaths \ DOMAIN content_map, x \in ScanContents : Add(p, x)
    \/ \E q \in ScanQueries, context_size \in ContextSizes :
          Search(q.pattern, q.case_sensitive, q.regex_mode, q.whole_word, context_size)

SpecScan == Init /\ [][NextScan]_vars

\* the matches of the lines n.. of a file, as (line, start, end), line after line
RECURSIVE MatchesInLines(_, _, _)
MatchesInLines(lines, n, rx) ==
    IF n > Len(lines) THEN <<>>
    ELSE LET found == FindIter(rx, lines[n])
         IN  [i \in 1..Len(found) |-> <<n, found[i].start, found[i].end>>]
             \o MatchesInLines(lines, n + 1, rx)

\* result r gives the text of its span and the context around it, from its line only
ResultFaithful(r, context_size) ==
    LET line == SplitLines(content_map[r.file_path])[r.line_number]
        before == Min(context_size, r.start_pos)
        after == Min(context_size, Len(line) - r.end_pos)
    IN  /\ r.start_pos <= r.end_pos /\ r.end_pos <= Len(line)
        /\ r.match_text = SubSeq(line, r.start_pos + 1, r.end_pos)
        /\ r.context_before = SubSeq(line, r.start_pos - before + 1, r.start_pos)
        /\ r.context_after = SubSeq(line, r.end_pos + 1, r.end_pos + after)

\* results are in line-then-column order and do not overlap
InScanOrder(results) ==
    \A i \in 1..(Len(results) - 1) :
        \/ results[i].line_number < results[i + 1].line_number
        \/ /\ results[i].line_number = results[i + 1].line_number
           /\ results[i].end_pos <= results[i + 1].start_pos
           /\ results[i].start_pos < results[i + 1].start_pos

\* C17: a search that scans returns, for every file, all non-overlapping matches
\* of every line, in line-then-column order, each with line[start:end] as its
\* matched text and with at most context_size characters of the same line before
\* and after it; search("cat") on "The cat sat on the mat.\n" returns one result,
\* line 1, columns 4 to 7.
C17_AllMatchesOfEveryLine ==
    [][(/\ call'.op = "search"
        /\ KeyOfCall(call') \notin DOMAIN search_cache
        /\ ~DoesNotCompile(call'))
       => /\ ret'.raised = ""
          /\ \A p \in DOMAIN content_map :
                LET found == ResultsOf(ret'.value, p)
                IN  /\ SpansOfResults(found)
                          = MatchesInLines(SplitLines(content_map[p]), 1,
                                           SearchRegexOf(call'))
                    /\ InScanOrder(found)
                    /\ \A i \in 1..Len(found) :
                          ResultFaithful(found[i], call'.context_size)
                    /\ (content_map[p] = eMat /\ call'.pattern = pCat)
                       => SpansOfResults(found) = << <<1, 4, 7>> >>]_vars

---------------------------------------------------------------------------
(* SearchEngine.search step by step: the per-file tasks in the worker pool *)

\* the value of `ret` while the call has not come back
PENDING == "pending"
Pending == Returned(PENDING)

\* the future of the task submitted for file_path
SubmittedTask(file_path) == [file_path |-> file_path, state |-> "pending", found |-> <<>>]

\* search up to the submission of the tasks: the cache check, the pattern, and one
\* task per key of content_map
SearchBegin(pattern, case_sensitive, regex_mode, whole_word, context_size) ==
    LET cache_key == generate_cache_key(pattern, case_sensitive, regex_mode, whole_word)
        search_regex == build_search_regex(pattern, case_sensitive, regex_mode, whole_word)
        this == [op |-> "search", pattern |-> pattern,
                 case_sensitive |-> case_sensitive, regex_mode |-> regex_mode,
                 whole_word |-> whole_word, context_size |-> context_size]
    IN  /\ pool.phase = "idle"
        /\ call' = this
        /\ UNCHANGED <<storeVars, engineVars, threads, disk, loader>>
        /\ IF CacheHit(cache_key)
           THEN ret' = Returned(search_cache[cache_key]) /\ UNCHANGED pool
           ELSE IF search_regex.status = "OverflowError"
           THEN ret' = Raised("OverflowError") /\ UNCHANGED pool
           ELSE IF search_regex.status = "none"
           THEN ret' = Returned(<<>>) /\ UNCHANGED pool
           ELSE /\ ret' = Pending
                /\ pool' = [phase |-> "collecting",
                            call |-> this,
                            cache_key |-> cache_key,
                            search_regex |-> search_regex,
                            future_results |->
                                [i \in 1..Len(key_order) |-> SubmittedTask(key_order[i])],
                            next |-> 1,
                            results |-> <<>>]

\* a worker runs the task of future i to its end: _search_file returns its list
\* (the tasks end in any order; the four workers of the pool allow fewer orders)
TaskFinishes(i) ==
    /\ pool.phase = "collecting"
    /\ i \in 1..Len(pool.future_results)
    /\ pool.future_results[i].state = "pending"
    /\ pool' = [pool EXCEPT
                   !.future_results[i].state = "done",
                   !.future_results[i].found =
                       search_file(Store, pool.future_results[i].file_path,
                                   pool.search_regex, pool.call.context_size)]
    /\ UNCHANGED <<storeVars, engineVars, threads, disk, loader, call, ret>>

\* the task of future i raises an exception
TaskRaises(i) ==
    /\ pool.phase = "collecting"
    /\ i \in 1..Len(pool.future_results)
    /\ pool.future_results[i].state = "pending"
    /\ pool' = [pool EXCEPT !.future_results[i].state = "raised"]
    /\ UNCHANGED <<storeVars, engineVars, threads, disk, loader, call, ret>>

\* one round of the loop over future_results: future.result() blocks until the
\* task is over; its list is added, an exception is caught and reported
Collect ==
    /\ pool.phase = "collecting"
    /\ pool.next <= Len(pool.future_results)
    /\ LET future == pool.future_results[pool.next]
       IN  /\ future.state # "pending"
           /\ pool' = [pool EXCEPT
                          !.next = @ + 1,
                          !.results = IF future.state = "done" THEN @ \o future.found
                                      ELSE @]
    /\ UNCHANGED <<storeVars, engineVars, threads, disk, loader, call, ret>>

\* the loop ends after the first future
LoopDone_AfterFirst(next, future_results) == next > 1

\* the loop over future_results has seen every future
LoopDone(next, future_results) == next > Len(future_results)

\* search after the loop: the list is cached and returned
SearchEnd ==
    /\ pool.phase = "collecting"
    /\ LoopDone(pool.next, pool.future_results)
    /\ search_cache' = Put(search_cache, pool.cache_key, pool.results)
    /\ call' = pool.call
    /\ ret' = Returned(pool.results)
    /\ pool' = IdlePool
    /\ UNCHANGED <<storeVars, replacement_history, threads, disk, loader>>

PoolQueries == {qLiteral, qUnbalanced}
PoolContents == {eBa, eB}

NextPool ==
    \/ \E p \in Paths \ DOMAIN content_map, x \in PoolContents : Add(p, x)
    \/ \E q \in PoolQueries :
          SearchBegin(q.pattern, q.case_sensitive, q.regex_mode, q.whole_word,
                      DefaultContextSize)
    \/ \E i \in 1..Cardinality(Paths) : TaskFinishes(i)
    \/ \E i \in 1..Cardinality(Paths) : TaskRaises(i)
    \/ Collect
    \/ SearchEnd
    \/ ClearCache

\* every submitted task comes to an end and the calling thread keeps running
PoolFairness ==
    /\ \A i \in 1..Cardinality(Paths) : WF_pool(TaskFinishes(i) \/ TaskRaises(i))
    /\ WF_pool(Collect)
    /\ WF_pool(SearchEnd)

SpecPool == Init /\ [][NextPool]_vars /\ PoolFairness

\* the lists of the tasks that succeeded, in the order of the futures
RECURSIVE ListsOfSucceeded(_)
ListsOfSucceeded(future_results) ==
    IF Len(future_results) = 0 THEN <<>>
    ELSE (IF future_results[1].state = "done" THEN future_results[1].found ELSE <<>>)
         \o ListsOfSucceeded(Tail(future_results))

\* C18: an uncached search submits one task per file of the corpus and returns only
\* when every task is over; what it returns is the concatenation of the lists of
\* the tasks that succeeded; a task that raised adds nothing, and the search
\* neither raises nor waits for ever.
C18_TasksAggregated ==
    /\ [][(pool.phase = "idle" /\ pool'.phase = "collecting")
          => [i \in 1..Len(pool'.future_results) |-> pool'.future_results[i].file_path]
                = key_order]_vars
    /\ [][(pool.phase = "collecting" /\ pool'.phase = "idle")
          => /\ \A i \in 1..Len(pool.future_results) :
                   pool.future_results[i].state # "pending"
             /\ ret' = Returned(ListsOfSucceeded(pool.future_results))
             /\ call' = pool.call]_vars
    /\ (pool.phase = "collecting") ~> (pool.phase = "idle")

\* the search came back without the results of the first file, whose task raised
C18_Witness ==
    /\ call.op = "search"
    /\ pool.phase = "idle"
    /\ key_order = <<"p1", "p2">>
    /\ ret.raised = ""
    /\ ret.value # PENDING
    /\ ret.value # <<>>
    /\ \A i \in 1..Len(ret.value) : ret.value[i].file_path = "p2"
    /\ ResultsOf(FreshScan(call), "p1") # <<>>

---------------------------------------------------------------------------
(* ContentManager.update_content step by step, called from several threads *)

\* the threads that are inside update_content
Busy == {t \in Threads : threads[t].pc # "idle"}

\* thread t enters update_content: the checks, and the read of old_content
UpdateEnter(t, file_path, new_content) ==
    /\ threads[t].pc = "idle"
    /\ Len(History(file_path)) + Cardinality(Busy) < MaxHistory
    /\ UNCHANGED <<storeVars, engineVars, pool, disk, loader>>
    /\ IF UpdateAccepts(Store, file_path, new_content)
       THEN /\ threads' = [threads EXCEPT ![t] =
                              [pc |-> "write", accepted |-> @.accepted,
                               file_path |-> file_path, new_content |-> new_content,
                               old_content |-> content_map[file_path]]]
            /\ UNCHANGED <<call, ret>>
       ELSE /\ call' = [op |-> "update", path |-> file_path, content |-> new_content]
            /\ ret' = Returned(FALSE)
            /\ UNCHANGED threads

\* thread t stores the content, marks the file and appends the history record
UpdateWrite(t) ==
    LET me == threads[t]
        modified == modified_files \cup {me.file_path}
    IN  /\ me.pc = "write"
        /\ content_map' = [content_map EXCEPT ![me.file_path] = me.new_content]
        /\ modified_files' = modified
        /\ stats' = IF me.file_path \in modified_files THEN stats
                    ELSE [stats EXCEPT !.modified_count = Cardinality(modified)]
        /\ change_history' = Put(change_history, me.file_path,
                                 Append(History(me.file_path),
                                        <<me.old_content, me.new_content>>))
        /\ threads' = [threads EXCEPT ![t].pc = "purge"]
        /\ UNCHANGED <<original_content, file_index, key_order, engineVars, pool, disk, loader,
                       call, ret>>

\* the words of the two contents that _reindex_file of thread t works with
OldWords(t) == SeqToSet(FindAllWords(Lower(threads[t].old_content)))
NewWords(t) == SeqToSet(FindAllWords(Lower(threads[t].new_content)))

\* one loop of _reindex_file in thread t: from pc `at` to pc `to`
ReindexStep(t, at, to, index) ==
    /\ threads[t].pc = at
    /\ file_index' = index
    /\ threads' = [threads EXCEPT ![t].pc = to]
    /\ UNCHANGED <<content_map, original_content, modified_files, change_history,
                   stats, key_order, engineVars, pool, disk, loader, call, ret>>

\* step 2 of _reindex_file in thread t
ReindexPurge(t) ==
    ReindexStep(t, "purge", "clear",
        PurgeRemoved(file_index, threads[t].file_path, OldWords(t) \ NewWords(t)))

\* step 3 of _reindex_file in thread t, the clearing loop
ReindexClear(t) ==
    ReindexStep(t, "clear", "index",
        ClearKept(file_index, threads[t].file_path, NewWords(t) \cap OldWords(t)))

\* step 3 of _reindex_file in thread t, the loop that indexes the new content
ReindexIndex(t) ==
    ReindexStep(t, "index", "stats",
        AppendPostings(file_index,
                       Postings(threads[t].file_path, threads[t].new_content)))

\* step 4 of _reindex_file in thread t, and the return of update_content
UpdateReturn(t) ==
    LET me == threads[t]
    IN  /\ me.pc = "stats"
        /\ stats' = update_stats_modify(stats, me.old_content, me.new_content)
        /\ threads' = [threads EXCEPT ![t] = Idle(me.accepted + 1)]
        /\ call' = [op |-> "update", path |-> me.file_path, content |-> me.new_content]
        /\ ret' = Returned(TRUE)
        /\ UNCHANGED <<content_map, original_content, modified_files, change_history,
                       file_index, key_order, engineVars, pool, disk, loader>>

eA == <<"a">>
RaceContents == {eA, eB, eBa}

NextRace ==
    \/ \E p \in SearchPaths \ DOMAIN content_map : Add(p, eA)
    \/ \E t \in Threads, p \in SearchPaths, x \in RaceContents : UpdateEnter(t, p, x)
    \/ \E t \in Threads : UpdateWrite(t)
    \/ \E t \in Threads : ReindexPurge(t)
    \/ \E t \in Threads : ReindexClear(t)
    \/ \E t \in Threads : ReindexIndex(t)
    \/ \E t \in Threads : UpdateReturn(t)

SpecRace == Init /\ [][NextRace]_vars

\* the threads that are repairing the index for file_path
Repairing(file_path) ==
    {t \in Threads : /\ threads[t].pc \in {"purge", "clear", "index"}
                     /\ threads[t].file_path = file_path}

\* the calls that returned True, over all threads
RECURSIVE AcceptedBy(_)
AcceptedBy(ts) ==
    IF ts = {} THEN 0
    ELSE LET t == CHOOSE u \in ts : TRUE
         IN  threads[t].accepted + AcceptedBy(ts \ {t})

\* C19: update is a critical section per path: the index repairs of two concurrent
\* updates of one path never interleave, and once both calls are over the index
\* holds for that path exactly the words of its final content and the history of
\* the path has one record per accepted update.
C19_UpdatesSerialised ==
    \A p \in DOMAIN content_map :
        /\ Cardinality(Repairing(p)) <= 1
        /\ Busy = {} =>
              /\ \A w \in LookupWords :
                    /\ NoDuplicates(PostingsOf(file_index, Lower(w), p))
                    /\ SeqToSet(PostingsOf(file_index, Lower(w), p)) = Occurrences(p, w)
              /\ Len(History(p)) = AcceptedBy(Threads)

---------------------------------------------------------------------------
(* EPUBSaver *)

MIMETYPE == "mimetype"
CONTAINER == "META-INF/container.xml"
\* b'application/epub+zip'
EPUB_MIME == <<"application/epub+zip">>
\* a file that is not a zip archive
NOT_A_ZIP == File("not a zip", <<>>)

\* an archive is a sequence of entries; stored means compress_type = ZIP_STORED,
\* flaw is what keeps zipfile from reading the entry ("" for an intact entry)
Entry(filename, stored, data) == [filename |-> filename, stored |-> stored, data |-> data, flaw |-> ""]

\* str.encode('utf-8') byte by byte
Utf8Char(c) == IF c = E_ACUTE THEN <<"0xC3", "0xA9">> ELSE <<c>>
RECURSIVE Utf8(_)
Utf8(content) ==
    IF Len(content) = 0 THEN <<>> ELSE Utf8Char(content[1]) \o Utf8(Tail(content))

\* file_name.replace('\\', '/') on the entry names of the model
BACKSLASHED == "OEBPS\\p1"
normalized_path(file_name) == IF file_name = BACKSLASHED THEN "OEBPS/p1" ELSE file_name

NameList(archive) == {archive[i].filename : i \in 1..Len(archive)}

\* ZipFile.read(name): the data of the last entry of that name
ReadEntry(archive, name) ==
    LET at == {i \in 1..Len(archive) : archive[i].filename = name}
    IN  archive[CHOOSE i \in at : \A j \in at : j <= i].data

\* the validation accepts every archive
validate_epub_AcceptAll(file) == TRUE

\* _validate_epub on what is at a path
validate_epub(file) ==
    /\ file.kind = "zip"
    /\ Len(file.entries) > 0
    /\ CONTAINER \in NameList(file.entries)
    /\ file.entries[1].filename = MIMETYPE
    /\ file.entries[1].stored
    /\ ReadEntry(file.entries, MIMETYPE) = EPUB_MIME

\* the entries _write_epub writes after mimetype, in the order of the source
\* (an unmodified entry is read back from the source by its name)
RECURSIVE RestOfEntries(_, _)
RestOfEntries(source, items) ==
    IF Len(items) = 0 THEN <<>>
    ELSE LET item == items[1]
             path == normalized_path(item.filename)
             data == IF path \in DOMAIN content_map
                     THEN Utf8(content_map[path])
                     ELSE ReadEntry(source, item.filename)
         IN  (IF item.filename = MIMETYPE THEN <<>>
              ELSE <<Entry(item.filename, item.stored, data)>>)
             \o RestOfEntries(source, Tail(items))

\* the archive _write_epub builds in the temporary file
TempArchive(source) ==
    Zip(<<Entry(MIMETYPE, TRUE, ReadEntry(source.entries, MIMETYPE))>>
        \o RestOfEntries(source.entries, source.entries))

\* the step of a save at which the file system refuses an operation ("unlink":
\* removing a backup in _rotate_backups, which only a made backup leads to)
Faults == {"none", "mkdtemp", "write", "move", "unlink"}

\* the temporary directory is left behind
rmtree_Keep(D) == D

\* shutil.rmtree(temp_dir, ignore_errors=True) in the finally clause
rmtree(D) == [D EXCEPT !.temp_dirs = @ - 1]

\* _write_epub(source_path, target_path) on disk D: what it raises or returns, and
\* the disk it leaves
write_epub(D, source_path, target_path, fault) ==
    LET source == D.files[source_path]
        made == [D EXCEPT !.temp_dirs = @ + 1]
        Fails(message) ==
            [raised |-> "", ok |-> FALSE, message |-> message, disk |-> rmtree(made)]
    IN  IF fault = "mkdtemp"
        THEN [raised |-> "OSError", ok |-> FALSE, message |-> "", disk |-> D]
        ELSE IF source.kind # "zip" THEN Fails("Save error")
        ELSE IF MIMETYPE \notin NameList(source.entries)
        THEN [raised |-> "KeyError", ok |-> FALSE, message |-> "", disk |-> rmtree(made)]
        ELSE IF fault = "write" THEN Fails("Save error")
        ELSE IF ~validate_epub(TempArchive(source)) THEN Fails("Validation failed")
        ELSE IF fault = "move" THEN Fails("Save error")
        ELSE [raised |-> "", ok |-> TRUE, message |-> "EPUB written successfully",
              disk |-> rmtree([made EXCEPT !.files[target_path] = TempArchive(source)])]

\* _create_backup(epub_path) on disk D: datetime is not imported by the module, so
\* the call raises NameError once the backup directory is made
create_backup(D, epub_path) ==
    IF D.files[epub_path] = MISSING
    THEN [raised |-> "", result |-> NONE, disk |-> D]
    ELSE [raised |-> "NameError", result |-> NONE, disk |-> [D EXCEPT !.backup_dir = TRUE]]

\* the (success, message) pair save_epub returns
Outcome(ok, message) == [ok |-> ok, message |-> message]

\* the test of save_epub that decides whether a backup is made first
BackupWanted(in_place, wanted) == in_place /\ wanted

\* save_epub(original_path, output_path, create_backup)
Save(original_path, output_path, wanted, fault) ==
    LET target == IF output_path = NONE THEN original_path ELSE output_path
        in_place == target = original_path
        backup == IF BackupWanted(in_place, wanted) THEN create_backup(disk, original_path)
                  ELSE [raised |-> "", result |-> "No backup created", disk |-> disk]
        written == write_epub(backup.disk, original_path, target, fault)
    IN  /\ call' = [op |-> "save", original_path |-> original_path,
                    output_path |-> output_path, create_backup |-> wanted,
                    fault |-> fault]
        /\ UNCHANGED <<content_map, original_content, change_history, file_index, stats,
                       key_order, engineVars, pool, threads, loader>>
        /\ IF backup.raised # ""
           THEN ret' = Raised(backup.raised) /\ disk' = backup.disk
                /\ UNCHANGED modified_files
           ELSE IF backup.result = NONE
           THEN ret' = Returned(Outcome(FALSE, "Backup creation failed"))
                /\ disk' = backup.disk /\ UNCHANGED modified_files
           ELSE IF written.raised # ""
           THEN ret' = Raised(written.raised) /\ disk' = written.disk
                /\ UNCHANGED modified_files
           ELSE IF written.ok
           THEN ret' = Returned(Outcome(TRUE, "Saved successfully"))
                /\ disk' = written.disk
                /\ modified_files' = IF in_place THEN {} ELSE modified_files
           ELSE ret' = Returned(Outcome(FALSE, written.message))
                /\ disk' = written.disk /\ UNCHANGED modified_files

\* another program puts an archive at a path where there is none
PutFile(path, file) ==
    /\ disk.files[path] = MISSING
    /\ disk' = [disk EXCEPT !.files[path] = file]
    /\ call' = [op |-> "file created", path |-> path]
    /\ ret' = Returned(NONE)
    /\ UNCHANGED <<storeVars, engineVars, pool, threads, loader>>

bGood == Zip(<<Entry(MIMETYPE, TRUE, EPUB_MIME), Entry(CONTAINER, FALSE, <<"x">>), Entry("p1", FALSE, <<"a">>)>>)
bNoContainer == Zip(<<Entry(MIMETYPE, TRUE, EPUB_MIME), Entry("p1", FALSE, <<"a">>)>>)
bNoMimetype == Zip(<<Entry(CONTAINER, FALSE, <<"x">>), Entry("p1", FALSE, <<"a">>)>>)
\* the mimetype entry is compressed and not the first; an entry name with a backslash
bLateMimetype == Zip(<<Entry(CONTAINER, FALSE, <<"x">>), Entry(MIMETYPE, FALSE, EPUB_MIME), Entry(BACKSLASHED, FALSE, <<"a">>)>>)
\* two entries of one name
bTwoOfAName == Zip(<<Entry(MIMETYPE, TRUE, EPUB_MIME), Entry(CONTAINER, FALSE, <<"x">>), Entry("img", TRUE, <<"1">>), Entry("img", TRUE, <<"2">>)>>)
Books == {bGood, bNoContainer, bNoMimetype, bLateMimetype, bTwoOfAName, NOT_A_ZIP}
SavePaths == {"p1", "OEBPS/p1"}
eAcute == <<E_ACUTE>>
BOOK == "book.epub"
SAVE_AS == "out.epub"

NextSave ==
    \/ \E p \in SavePaths \ DOMAIN content_map : Add(p, eA)
    \/ \E p \in SearchPaths, x \in {eB, eAcute} : Update(p, x)
    \/ \E b \in Books : PutFile(BOOK, b)
    \/ \E out \in {NONE, BOOK, SAVE_AS}, wanted \in BOOLEAN, fault \in Faults :
          Save(BOOK, out, wanted, fault)

SpecSave == Init /\ [][NextSave]_vars

\* the call that is returning is an in-place save
InPlaceSave(c) == c.op = "save" /\ c.output_path \in {NONE, c.original_path}

\* C20: every in-place save, with any value of createBackup, first copies the
\* destination to a backup; when it cannot, it returns failure and leaves the
\* destination as it was.
C20_InPlaceSaveBacksUp ==
    [][InPlaceSave(call') =>
          LET dest == call'.original_path
          IN  \/ /\ Len(disk'.backups) = Len(disk.backups) + 1
                 /\ disk'.backups[Len(disk'.backups)] = disk.files[dest]
              \/ /\ ret'.raised = ""
                 /\ ~ret'.value.ok
                 /\ disk'.files[dest] = disk.files[dest]]_vars


\* the path a save writes to
TargetOf(c) == IF c.output_path = NONE THEN c.original_path ELSE c.output_path

\* the save of call c gets as far as writing the temporary file
WriteReached(c) ==
    /\ ~(InPlaceSave(c) /\ c.create_backup)
    /\ c.fault # "mkdtemp"
    /\ disk.files[c.original_path].kind = "zip"
    /\ MIMETYPE \in NameList(disk.files[c.original_path].entries)

\* the checks of the post-write validation, stated on the entries
PassesChecks(file) ==
    /\ file.kind = "zip"
    /\ \E i \in 1..Len(file.entries) : file.entries[i].filename = CONTAINER
    /\ Len(file.entries) >= 1
    /\ file.entries[1] = Entry(MIMETYPE, TRUE, EPUB_MIME)

\* C21: a save that fails because the temporary file cannot be written or does not
\* pass the validation returns (false, message), leaves every file as it was and
\* removes the temporary directory; and a save replaces its destination only by an
\* archive that passed the validation.
C21_FailedSaveLeavesDestination ==
    /\ [][(call'.op = "save" /\ WriteReached(call')
           /\ (call'.fault = "write" \/ ~PassesChecks(TempArchive(disk.files[BOOK]))))
          => /\ ret'.raised = "" /\ ~ret'.value.ok
             /\ disk'.files = disk.files
             /\ disk'.temp_dirs = 0]_vars
    /\ [][(call'.op = "save" /\ disk'.files # disk.files)
          => /\ PassesChecks(disk'.files[TargetOf(call')])
             /\ ret' = Returned(Outcome(TRUE, "Saved successfully"))
             /\ disk'.temp_dirs = 0]_vars

\* a save as was refused by the validation of the temporary file
C21_Witness ==
    /\ call.op = "save" /\ call.fault = "none" /\ call.output_path = SAVE_AS
    /\ ret = Returned(Outcome(FALSE, "Validation failed"))
    /\ disk.files[BOOK] = bNoContainer
    /\ disk.files[SAVE_AS] = MISSING
    /\ disk.temp_dirs = 0


\* C22: save never raises: it returns a (flag, message) pair in every case; and the
\* in-place save with createBackup = true of an existing valid archive returns
\* (true, message) with the backup made.
C22_SaveNeverRaises ==
    [][call'.op = "save" =>
          /\ ret'.raised = ""
          /\ (/\ InPlaceSave(call') /\ call'.create_backup /\ call'.fault = "none"
              /\ PassesChecks(disk.files[call'.original_path]))
             => /\ ret'.value.ok
                /\ Len(disk'.backups) = Len(disk.backups) + 1]_vars


\* ---------------------------------------------------------------------------
\* what a successful save writes

\* the entries of an archive other than mimetype, in their order
OtherEntries(archive) == SelectSeq(archive, LAMBDA item : item.filename # MIMETYPE)

\* the bytes the entry must hold after a save: the corpus's content or its own
BytesAfterSave(item) ==
    IF normalized_path(item.filename) \in DOMAIN content_map
    THEN Utf8(content_map[normalized_path(item.filename)])
    ELSE item.data

\* the written archive is the source with mimetype first and the corpus's content in place
SavedFrom(source, written) ==
    LET others == OtherEntries(source.entries)
    IN  /\ written.kind = "zip"
        /\ Len(written.entries) = Len(others) + 1
        /\ written.entries[1] = Entry(MIMETYPE, TRUE, ReadEntry(source.entries, MIMETYPE))
        /\ \A i \in 1..Len(others) :
              /\ written.entries[i + 1].filename = others[i].filename
              /\ written.entries[i + 1].data = BytesAfterSave(others[i])

\* the save that is returning succeeded
SaveSucceeds == call'.op = "save" /\ ret'.raised = "" /\ ret'.value.ok

\* C23: the archive a successful save produces has mimetype first, stored, with
\* the source's mimetype bytes, then every other entry of the source once and
\* in source order, holding the corpus's content encoded as UTF-8 when its
\* normalized path is a corpus key and the source's bytes otherwise
C23_SavedArchiveLayout ==
    [][SaveSucceeds =>
          SavedFrom(disk.files[call'.original_path], disk'.files[TargetOf(call')])]_vars


\* C24: a save call, successful or not, in place or to another path, leaves the
\* Store's corpus, original snapshots, histories, word index, stats and
\* modified set unchanged
C24_SaveOnlyReadsStore ==
    [][call'.op = "save" =>
          UNCHANGED <<content_map, original_content, change_history, file_index, stats, modified_files>>]_vars


\* ---------------------------------------------------------------------------
\* retention of backups

\* self.max_backups, the number of backups kept
max_backups == 5

\* the backups in the backup directory made from one source archive
BackupsOf(D, source) == SelectSeq(D.backups, LAMBDA b : b.source = source)

\* an in-place save with its backup, in which nothing but pruning can be refused
InPlaceSaveOnlyPruningFails(c) ==
    /\ InPlaceSave(c) /\ c.create_backup
    /\ c.fault \in {"none", "unlink"}

\* C25: after in-place saves the backup directory holds at most max_backups
\* backups of each source archive, and a failure while pruning does not make
\* the save of a valid archive fail
C25_BackupsPruned ==
    [][call'.op = "save" =>
          /\ Len(BackupsOf(disk', call'.original_path)) <= max_backups
          /\ (InPlaceSaveOnlyPruningFails(call') /\ PassesChecks(disk.files[call'.original_path])) =>
                ret'.raised = "" /\ ret'.value.ok]_vars


\* ---------------------------------------------------------------------------
(* The loader (src/core/epub_loader.py) *)

\* file_path.suffix.lower() of the paths of the model
suffix_lower == [p \in FilePaths |-> IF p = "book.zip" THEN ".zip" ELSE ".epub"]

\* entries zipfile cannot read: the CRC does not match, the entry is encrypted
BadCrc(entry) == [entry EXCEPT !.flaw = "crc"]
Encrypted(entry) == [entry EXCEPT !.flaw = "encrypted"]

\* ZipFile.read(name): KeyError without an entry of that name, else the last entry
\* of the name is read; BadZipFile for a wrong CRC, RuntimeError for an encrypted entry
ZipRead(archive, name) ==
    LET at == {i \in 1..Len(archive) : archive[i].filename = name}
        item == archive[CHOOSE i \in at : \A j \in at : j <= i]
    IN  IF at = {} THEN [raised |-> "KeyError", data |-> <<>>]
        ELSE IF item.flaw = "crc" THEN [raised |-> "BadZipFile", data |-> <<>>]
        ELSE IF item.flaw = "encrypted" THEN [raised |-> "RuntimeError", data |-> <<>>]
        ELSE [raised |-> "", data |-> item.data]

\* the exceptions validate_epub turns into False (OSError, IndexError: none arises here)
CaughtByValidate == {"BadZipFile", "KeyError", "OSError", "IndexError"}

\* EPUBLoader.validate_epub(file_path) on disk D
EPUBLoader_validate_epub(D, file_path) ==
    LET file == D.files[file_path]
        epub == file.entries
        mimetype == ZipRead(epub, MIMETYPE)
    IN  IF file = MISSING \/ suffix_lower[file_path] # ".epub" THEN Returned(FALSE)
        ELSE IF file.kind # "zip" THEN Returned(FALSE)
        ELSE IF MIMETYPE \notin NameList(epub) \/ CONTAINER \notin NameList(epub)
             THEN Returned(FALSE)
        ELSE IF epub[1].filename # MIMETYPE \/ ~epub[1].stored THEN Returned(FALSE)
        ELSE IF mimetype.raised \in CaughtByValidate THEN Returned(FALSE)
        ELSE IF mimetype.raised # "" THEN Raised(mimetype.raised)
        ELSE Returned(mimetype.data = EPUB_MIME)

\* the XML documents of the model, as the bytes of an entry: a document is
\* well-formed when its root element is closed
CONTAINER_OPEN == "<container>"
CONTAINER_CLOSE == "</container>"
PACKAGE_OPEN == "<package>"
PACKAGE_CLOSE == "</package>"
\* a container descriptor with one rootfile element
ContainerXml(full_path) == <<CONTAINER_OPEN, full_path, CONTAINER_CLOSE>>
\* a package document whose manifest has an item (id and href the same) for each
\* name, whose spine has them all in that order, and whose metadata is a title
PackageXml(names) == <<PACKAGE_OPEN>> \o names \o <<PACKAGE_CLOSE>>
TITLE == "T"

\* ET.fromstring(data) does not raise ParseError
WellFormed(data, open, close) == Len(data) >= 2 /\ data[1] = open /\ data[Len(data)] = close

\* _get_opf_path(epub)
get_opf_path(epub) ==
    LET container_data == ZipRead(epub, CONTAINER)
        data == container_data.data
    IN  IF container_data.raised = "KeyError" THEN Returned(NONE)
        ELSE IF container_data.raised # "" THEN Raised(container_data.raised)
        ELSE IF ~WellFormed(data, CONTAINER_OPEN, CONTAINER_CLOSE) THEN Returned(NONE)
        ELSE IF Len(data) = 3 THEN Returned(data[2])
        ELSE Returned(NONE)

\* a dict as the sequence of its (key, value) pairs in insertion order
DictKeys(d) == {d[i].key : i \in 1..Len(d)}
DictKeyList(d) == [i \in 1..Len(d) |-> d[i].key]
DictGet(d, key) == d[CHOOSE i \in 1..Len(d) : d[i].key = key].value
DictSet(d, key, value) ==
    IF key \in DictKeys(d)
    THEN [i \in 1..Len(d) |-> IF d[i].key = key THEN [key |-> key, value |-> value] ELSE d[i]]
    ELSE Append(d, [key |-> key, value |-> value])

\* str(opf_dir / href).replace('\\', '/') for the package documents of the
\* model, which are at the root of the archive (opf_dir is Path('.'))
OPF_PATH == "content.opf"
PathInZip(href) == href

\* the manifest loop of _parse_opf: self.manifest[item_id] = href
RECURSIVE ParseManifest(_, _)
ParseManifest(manifest, names) ==
    IF Len(names) = 0 THEN manifest
    ELSE ParseManifest(DictSet(manifest, names[1], names[1]), Tail(names))

\* _parse_opf(epub, opf_path, opf_dir) on loader L
parse_opf(L, epub, opf_path) ==
    LET opf_data == ZipRead(epub, opf_path)
        data == opf_data.data
        names == SubSeq(data, 2, Len(data) - 1)
    IN  IF opf_data.raised # "" THEN [raised |-> opf_data.raised, loader |-> L]
        ELSE IF ~WellFormed(data, PACKAGE_OPEN, PACKAGE_CLOSE)
             THEN [raised |-> "ParseError", loader |-> L]
        ELSE [raised |-> "",
              loader |-> [L EXCEPT !.manifest = ParseManifest(@, names),
                                   !.spine = @ \o [i \in 1..Len(names) |-> PathInZip(names[i])],
                                   !.metadata = Append(@, TITLE)]]

\* _is_content_file(file_name) on the names of the model
TextNames == {"a.xhtml", "b.xhtml", OPF_PATH}
is_content_file(file_name) == file_name \in TextNames

\* bytes outside ASCII, and an XML declaration at the start of a member
BOM_UTF8 == <<"0xEF", "0xBB", "0xBF">>
BOM_UTF16_LE == <<"0xFF", "0xFE">>
BOM_UTF16_BE == <<"0xFE", "0xFF">>
NonAsciiBytes == {"0xC3", "0xA9", "0xE9", "0xEF", "0xBB", "0xBF", "0xFF", "0xFE"}
DECL_UTF8 == "<?xml version=\"1.0\" encoding=\"utf-8\"?>"
DECL_FOO == "<?xml version=\"1.0\" encoding=\"foo\"?>"
DECL_LATIN1 == "<?xml version=\"1.0\" encoding=\"iso-8859-1\"?>"
DeclaredEncoding ==
    [d \in {DECL_UTF8, DECL_FOO, DECL_LATIN1} |->
        IF d = DECL_UTF8 THEN "utf-8" ELSE IF d = DECL_LATIN1 THEN "iso-8859-1" ELSE "foo"]

StartsWith(content, prefix) ==
    Len(content) >= Len(prefix) /\ SubSeq(content, 1, Len(prefix)) = prefix

\* _detect_encoding(content)
detect_encoding(content) ==
    IF StartsWith(content, BOM_UTF8) THEN "utf-8-sig"
    ELSE IF StartsWith(content, BOM_UTF16_LE) \/ StartsWith(content, BOM_UTF16_BE) THEN "utf-16"
    ELSE IF Len(content) > 0 /\ content[1] \in DOMAIN DeclaredEncoding
         THEN DeclaredEncoding[content[1]]
    ELSE "utf-8"

\* the character U+FEFF, a character outside the alphabet of the model, and
\* the mark of a position that cannot be decoded
ZWNBSP == "U+FEFF"
OTHER_CHAR == "U+other"
UNDECODABLE == "undecodable"

\* the character of an ASCII byte
AsciiChar(byte) == IF byte = "0x00" THEN NUL ELSE byte

\* bytes.decode('utf-8'), UNDECODABLE where it raises UnicodeDecodeError
RECURSIVE DecodeUtf8(_)
DecodeUtf8(content) ==
    IF Len(content) = 0 THEN <<>>
    ELSE IF StartsWith(content, <<"0xC3", "0xA9">>)
         THEN <<E_ACUTE>> \o DecodeUtf8(SubSeq(content, 3, Len(content)))
    ELSE IF StartsWith(content, BOM_UTF8)
         THEN <<ZWNBSP>> \o DecodeUtf8(SubSeq(content, 4, Len(content)))
    ELSE IF content[1] \in NonAsciiBytes THEN <<UNDECODABLE>>
    ELSE <<AsciiChar(content[1])>> \o DecodeUtf8(Tail(content))

\* bytes.decode('utf-16') after the byte order mark: code units of two bytes
\* (surrogates are not in the model), UNDECODABLE for a truncated unit
RECURSIVE DecodeUtf16(_, _)
DecodeUtf16(content, little_endian) ==
    IF Len(content) = 0 THEN <<>>
    ELSE IF Len(content) = 1 THEN <<UNDECODABLE>>
    ELSE LET low == IF little_endian THEN content[1] ELSE content[2]
             high == IF little_endian THEN content[2] ELSE content[1]
             c == IF high # "0x00" THEN OTHER_CHAR
                  ELSE IF low = "0xE9" THEN E_ACUTE
                  ELSE IF low \in NonAsciiBytes THEN OTHER_CHAR
                  ELSE AsciiChar(low)
         IN  <<c>> \o DecodeUtf16(SubSeq(content, 3, Len(content)), little_endian)

\* bytes.decode('iso-8859-1'): one character for every byte
DecodeLatin1(content) ==
    [i \in 1..Len(content) |->
        IF content[i] = "0xE9" THEN E_ACUTE
        ELSE IF content[i] \in NonAsciiBytes THEN OTHER_CHAR
        ELSE AsciiChar(content[i])]

KnownEncodings == {"utf-8", "utf-8-sig", "utf-16", "iso-8859-1"}

\* content.decode(encoding): LookupError for a name that is no encoding,
\* UnicodeDecodeError for bytes the encoding does not allow
Decode(content, encoding) ==
    LET text == IF encoding = "utf-8" THEN DecodeUtf8(content)
                ELSE IF encoding = "utf-8-sig"
                     THEN DecodeUtf8(IF StartsWith(content, BOM_UTF8)
                                     THEN SubSeq(content, 4, Len(content)) ELSE content)
                ELSE IF encoding = "iso-8859-1" THEN DecodeLatin1(content)
                ELSE IF StartsWith(content, BOM_UTF16_BE)
                     THEN DecodeUtf16(SubSeq(content, 3, Len(content)), FALSE)
                ELSE IF StartsWith(content, BOM_UTF16_LE)
                     THEN DecodeUtf16(SubSeq(content, 3, Len(content)), TRUE)
                ELSE DecodeUtf16(content, TRUE)
    IN  IF encoding \notin KnownEncodings THEN [raised |-> "LookupError", text |-> <<>>]
        ELSE IF \E i \in 1..Len(text) : text[i] = UNDECODABLE
             THEN [raised |-> "UnicodeDecodeError", text |-> <<>>]
        ELSE [raised |-> "", text |-> text]

\* the exceptions the member loop of load_epub skips a member for
SkippedInLoop == {"KeyError", "UnicodeDecodeError"}

\* the loop of load_epub over self.manifest.items(): the content map it builds,
\* and the exception that ends it, if any
RECURSIVE LoadMembers(_, _, _)
LoadMembers(epub, items, map) ==
    IF Len(items) = 0 THEN [raised |-> "", content_map |-> map]
    ELSE LET href == items[1].value
             file_path_in_zip == PathInZip(href)
             content == ZipRead(epub, file_path_in_zip)
             decoded == Decode(content.data, detect_encoding(content.data))
             skip == LoadMembers(epub, Tail(items), map)
         IN  IF content.raised \in SkippedInLoop THEN skip
             ELSE IF content.raised # "" THEN [raised |-> content.raised, content_map |-> map]
             ELSE IF ~is_content_file(href) THEN skip
             ELSE IF decoded.raised \in SkippedInLoop THEN skip
             ELSE IF decoded.raised # "" THEN [raised |-> decoded.raised, content_map |-> map]
             ELSE LoadMembers(epub, Tail(items), DictSet(map, file_path_in_zip, decoded.text))

\* _analyze_structure(): the 'html' list, the only class the text names of the model are in
HtmlNames == {"a.xhtml", "b.xhtml"}
analyze_structure(L) ==
    [L EXCEPT !.structure = SelectSeq(DictKeyList(L.content_map), LAMBDA k : k \in HtmlNames)]

\* the exceptions load_epub turns into False
CaughtByLoad == {"BadZipFile", "OSError", "ParseError"}

\* load_epub(file_path) on disk D and loader L: what it returns or raises, and the loader it leaves
load_epub(D, L, file_path) ==
    LET opened == [L EXCEPT !.epub_path = file_path]
        valid == EPUBLoader_validate_epub(D, file_path)
        epub == D.files[file_path].entries
        opf_path == get_opf_path(epub)
        parsed == parse_opf(opened, epub, opf_path.value)
        members == LoadMembers(epub, parsed.loader.manifest, parsed.loader.content_map)
        loaded == [parsed.loader EXCEPT !.content_map = members.content_map]
        Ends(raised, left) ==
            [ret |-> IF raised \in CaughtByLoad THEN Returned(FALSE) ELSE Raised(raised),
             loader |-> left]
    IN  IF valid.raised # "" THEN [ret |-> valid, loader |-> opened]
        ELSE IF ~valid.value THEN [ret |-> Returned(FALSE), loader |-> opened]
        ELSE IF opf_path.raised # "" THEN Ends(opf_path.raised, opened)
        ELSE IF opf_path.value \in {NONE, ""} THEN [ret |-> Returned(FALSE), loader |-> opened]
        ELSE IF parsed.raised # "" THEN Ends(parsed.raised, parsed.loader)
        ELSE IF members.raised # "" THEN Ends(members.raised, loaded)
        ELSE [ret |-> Returned(TRUE), loader |-> analyze_structure(loaded)]

\* the package documents parsed by one loader (each one appends to spine and metadata)
MaxParsed == 2

\* EPUBLoader.validate_epub(file_path)
Validate(file_path) ==
    /\ call' = [op |-> "validate", file_path |-> file_path]
    /\ ret' = EPUBLoader_validate_epub(disk, file_path)
    /\ UNCHANGED <<storeVars, engineVars, concVars>>

\* EPUBLoader.load_epub(file_path)
Load(file_path) ==
    /\ Len(loader.metadata) < MaxParsed
    /\ LET done == load_epub(disk, loader, file_path)
       IN  /\ call' = [op |-> "load", file_path |-> file_path]
           /\ ret' = done.ret
           /\ loader' = done.loader
    /\ UNCHANGED <<storeVars, engineVars, pool, threads, disk>>

\* the archives that are loaded
eMime == Entry(MIMETYPE, TRUE, EPUB_MIME)
eContainer == Entry(CONTAINER, FALSE, ContainerXml(OPF_PATH))
ePackage == Entry(OPF_PATH, FALSE, PackageXml(<<"a.xhtml", "b.xhtml", "img.png">>))
eMemberA == Entry("a.xhtml", FALSE, <<"a">>)
eMemberB == Entry("b.xhtml", FALSE, <<"0xC3", "0xA9">>)
eImage == Entry("img.png", FALSE, <<"0xFF">>)
lGood == Zip(<<eMime, eContainer, ePackage, eMemberA, eMemberB, eImage>>)
\* the container descriptor is missing, is not XML, names a package document that is not there
lNoContainer == Zip(<<eMime, ePackage, eMemberA, eMemberB>>)
lBadContainer == Zip(<<eMime, Entry(CONTAINER, FALSE, <<CONTAINER_OPEN>>), ePackage, eMemberA, eMemberB>>)
lNoPackage == Zip(<<eMime, eContainer, eMemberA, eMemberB>>)
\* the package document is not XML
lBadPackage == Zip(<<eMime, eContainer, Entry(OPF_PATH, FALSE, <<PACKAGE_OPEN, "a.xhtml">>), eMemberA>>)
\* the mimetype entry is compressed, has other bytes, is encrypted, is there twice
lDeflatedMimetype == Zip(<<Entry(MIMETYPE, FALSE, EPUB_MIME), eContainer, ePackage>>)
lOtherMimetype == Zip(<<Entry(MIMETYPE, TRUE, <<"application/zip">>), eContainer, ePackage>>)
lEncrypted == Zip(<<Encrypted(eMime), eContainer, ePackage, eMemberA, eMemberB>>)
lTwoMimetypes == Zip(<<Entry(MIMETYPE, TRUE, <<"application/zip">>), eContainer, ePackage, eMime>>)
\* a member of the manifest is missing, is not UTF-8, declares an encoding that
\* does not exist, has a wrong CRC
lMissingMember == Zip(<<eMime, eContainer, ePackage, eMemberB>>)
lUndecodable == Zip(<<eMime, eContainer, ePackage, Entry("a.xhtml", FALSE, <<"0xFF">>), eMemberB>>)
lUnknownEncoding == Zip(<<eMime, eContainer, ePackage, eMemberA, Entry("b.xhtml", FALSE, <<DECL_FOO, "b">>)>>)
lBadCrc == Zip(<<eMime, eContainer, ePackage, eMemberA, BadCrc(eMemberB)>>)
LoaderBooks ==
    {lGood, lNoContainer, lBadContainer, lNoPackage, lBadPackage, lDeflatedMimetype,
     lOtherMimetype, lEncrypted, lTwoMimetypes, lMissingMember, lUndecodable,
     lUnknownEncoding, lBadCrc, bLateMimetype, NOT_A_ZIP}

NextLoad ==
    \/ \E b \in LoaderBooks : PutFile(BOOK, b)
    \/ \E p \in {SAVE_AS, "book.zip"} : PutFile(p, lGood)
    \/ \E p \in FilePaths : Validate(p)
    \/ \E p \in FilePaths : Load(p)

SpecLoad == Init /\ [][NextLoad]_vars

\* what validate is to answer for a file: it exists, has the extension, is a zip
\* whose first entry is mimetype, stored, with the media type as its bytes, and
\* it has the container descriptor
IsValidEpub(path, file) ==
    /\ file # MISSING
    /\ suffix_lower[path] = ".epub"
    /\ file.kind = "zip"
    /\ Len(file.entries) >= 1
    /\ file.entries[1] = eMime
    /\ \E i \in 1..Len(file.entries) : file.entries[i].filename = CONTAINER

\* C26: validate(path) returns true exactly when the file exists, has the
\* extension, is a well-formed zip with mimetype first, stored, with the bytes of
\* the media type, and has the container descriptor; in every other case it
\* returns false and never raises
C26_ValidateDecides ==
    [][call'.op = "validate" =>
          ret' = Returned(IsValidEpub(call'.file_path, disk.files[call'.file_path]))]_vars


\* the maps and lists of the loader that a load fills
Loaded(L) == <<L.content_map, L.manifest, L.spine, L.metadata>>

\* C27: whenever load does not succeed, at whatever stage it fails, the loader's
\* content map, manifest, spine and metadata have gained nothing from the
\* failing archive (the loader never removes anything, so they are as before)
C27_NoPartialLoad ==
    [][(call'.op = "load" /\ ret' # Returned(TRUE)) => Loaded(loader') = Loaded(loader)]_vars

\* the archive passes validation and has a readable container descriptor
HasContainer(path, file) ==
    /\ IsValidEpub(path, file)
    /\ ZipRead(file.entries, CONTAINER).raised = ""

\* the container descriptor is not well-formed XML
MalformedContainer(file) ==
    ~WellFormed(ZipRead(file.entries, CONTAINER).data, CONTAINER_OPEN, CONTAINER_CLOSE)

\* the package document the container descriptor names
NamedPackage(file) == ZipRead(file.entries, ZipRead(file.entries, CONTAINER).data[2])

\* the container descriptor names a package document the archive does not
\* have, or one that is not well-formed XML
MissingOrMalformedPackage(file) ==
    /\ ~MalformedContainer(file)
    /\ Len(ZipRead(file.entries, CONTAINER).data) = 3
    /\ \/ NamedPackage(file).raised = "KeyError"
       \/ /\ NamedPackage(file).raised = ""
          /\ ~WellFormed(NamedPackage(file).data, PACKAGE_OPEN, PACKAGE_CLOSE)

\* C28: when the container descriptor names a package document that is not in
\* the archive, or the container descriptor or the package document is not
\* well-formed XML, load returns false and does not raise
C28_MandatoryEntryFails ==
    [][(/\ call'.op = "load"
        /\ HasContainer(call'.file_path, disk.files[call'.file_path])
        /\ \/ MalformedContainer(disk.files[call'.file_path])
           \/ MissingOrMalformedPackage(disk.files[call'.file_path]))
       => ret' = Returned(FALSE)]_vars

\* the archive passes validation and its container descriptor and package
\* document are read and parsed
Parses(path, file) ==
    /\ HasContainer(path, file)
    /\ ~MalformedContainer(file)
    /\ Len(ZipRead(file.entries, CONTAINER).data) = 3
    /\ NamedPackage(file).raised = ""
    /\ WellFormed(NamedPackage(file).data, PACKAGE_OPEN, PACKAGE_CLOSE)

\* the text-like entries of the manifest of a package document
TextMembers(file) ==
    {NamedPackage(file).data[i] : i \in 2..(Len(NamedPackage(file).data) - 1)} \cap TextNames

\* the member is missing from the archive
MemberMissing(file, name) == ZipRead(file.entries, name).raised = "KeyError"

\* the bytes of the member, decoded with the encoding the loader detects
MemberText(file, name) ==
    Decode(ZipRead(file.entries, name).data, detect_encoding(ZipRead(file.entries, name).data))

\* every text-like member is missing, or is read (decodable or not)
MembersMissingOrRead(file) ==
    \A name \in TextMembers(file) :
        MemberMissing(file, name) \/ ZipRead(file.entries, name).raised = ""

\* C29: a text-like manifest entry that is missing from the archive, or whose
\* bytes cannot be decoded with the detected encoding, is skipped: load returns
\* true, raises nothing, and every decodable text member is in the content map
C29_UnreadableMemberSkipped ==
    [][(/\ call'.op = "load"
        /\ Parses(call'.file_path, disk.files[call'.file_path])
        /\ MembersMissingOrRead(disk.files[call'.file_path]))
       => /\ ret' = Returned(TRUE)
          /\ \A name \in TextMembers(disk.files[call'.file_path]) :
                (/\ ~MemberMissing(disk.files[call'.file_path], name)
                 /\ MemberText(disk.files[call'.file_path], name).raised = "")
                => /\ name \in DictKeys(loader'.content_map)
                   /\ DictGet(loader'.content_map, name) = MemberText(disk.files[call'.file_path], name).text]_vars


\* ---------------------------------------------------------------------------
\* replace directly followed by undo_last_replacement

\* the texts put in place of a part of a line: a letter, nothing, a line break
RoundTripTexts == {<<"b">>, <<>>, <<NL>>}

\* two files; one of them is edited in place and the edit undone
NextRoundTrip ==
    \/ \E p \in Paths \ DOMAIN content_map : Add(p, eBa)
    \/ \E p \in SearchPaths, s \in 0..1, e \in 1..2, t \in RoundTripTexts : Replace(p, 1, s, e, t)
    \/ UndoLastReplacement

SpecRoundTrip == Init /\ [][NextRoundTrip]_vars

\* the content the file had before the update that was accepted last
ContentBeforeLastUpdate(p) == History(p)[Len(History(p))][1]

\* the step undoes the successful replace that has just returned
UndoFollowsReplace ==
    /\ call.op = "replace" /\ ret = Returned(TRUE)
    /\ call'.op = "undo_last_replacement"

\* C30: an undo_last_replacement that directly follows a successful replace
\* returns true and gives the file the content it had before the replace,
\* whatever the new text was, and leaves every other file as it is
C30_ReplaceUndoRoundTrip ==
    [][UndoFollowsReplace =>
          /\ ret' = Returned(TRUE)
          /\ content_map'[call.path] = ContentBeforeLastUpdate(call.path)
          /\ \A q \in DOMAIN content_map \ {call.path} : content_map'[q] = content_map[q]]_vars


\* ---------------------------------------------------------------------------
\* the replacement history as a bounded buffer

\* p1 is edited and rolled back again and again, so that its change history stays
\* short while the replacement history fills; p2 can be edited once (its line
\* becomes empty), which puts one record that differs from the others anywhere
\* in the replacement history
NextBuffer ==
    \/ \E p \in Paths \ DOMAIN content_map : Add(p, eA)
    \/ Replace("p1", 1, 0, 1, eB)
    \/ Replace("p2", 1, 0, 1, <<>>)
    \/ Rollback("p1", 1)
    \/ UndoLastReplacement

SpecBuffer == Init /\ [][NextBuffer]_vars

\* the record a successful replace appends: path, line number, the line as it was
RecordOf(c) == <<c.path, c.line_number, SplitLines(content_map[c.path])[c.line_number]>>

IsPrefix(s, t) == Len(s) <= Len(t) /\ s = SubSeq(t, 1, Len(s))

\* C31: the replacement history holds at most max_history records, in the order
\* the replacements were made: a successful replace appends its record and, when
\* the bound would be exceeded, drops exactly the oldest record; every other
\* call leaves a prefix of the history
C31_HistoryBounded ==
    /\ [](Len(replacement_history) <= max_history)
    /\ [][IF call'.op = "replace" /\ ret' = Returned(TRUE)
          THEN replacement_history' =
                  IF Len(replacement_history) = max_history
                  THEN Tail(replacement_history) \o <<RecordOf(call')>>
                  ELSE replacement_history \o <<RecordOf(call')>>
          ELSE IsPrefix(replacement_history', replacement_history)]_vars

\* the buffer is full and the one record of p2 has been dropped as the oldest
C31_Witness ==
    /\ call.op = "replace" /\ ret = Returned(TRUE)
    /\ Len(replacement_history) = max_history
    /\ "p2" \in DOMAIN content_map /\ content_map["p2"] = <<>>
    /\ Len(History("p2")) = 1
    /\ \A i \in 1..Len(replacement_history) : replacement_history[i][1] = "p1"


\* ---------------------------------------------------------------------------
\* the distance function of fuzzy_search

\* the longest string the distance is computed for
MaxWord == 3

DistanceLetters == {"t", "e", "h"}
DistanceWords == UNION {[1..k -> DistanceLetters] : k \in 0..MaxWord}

\* SearchEngine._levenshtein_distance(s1, s2); the function reads no state, so
\* one call from the initial state is explored for each pair of strings
LevenshteinDistance(s1, s2) ==
    /\ call.op = "init"
    /\ call' = [op |-> "levenshtein_distance", s1 |-> s1, s2 |-> s2]
    /\ ret' = Returned(levenshtein_distance(s1, s2))
    /\ UNCHANGED <<storeVars, engineVars, concVars>>

NextDistance == \E s1 \in DistanceWords, s2 \in DistanceWords : LevenshteinDistance(s1, s2)

SpecDistance == Init /\ [][NextDistance]_vars

\* C32: the distance fuzzy_search uses is the least number of insertions,
\* deletions and substitutions of one character (no transposition), it is
\* symmetric, and it is 0 exactly for equal strings
C32_ClassicLevenshtein ==
    call.op = "levenshtein_distance" =>
        /\ ret = Returned(EditDistance(call.s1, call.s2))
        /\ ret.value = levenshtein_distance(call.s2, call.s1)
        /\ (ret.value = 0) <=> (call.s1 = call.s2)

\* a transposition costs two
C32_Witness ==
    /\ call.op = "levenshtein_distance"
    /\ call.s1 = <<"t", "h", "e">> /\ call.s2 = <<"t", "e", "h">>
    /\ ret = Returned(2)


\* ---------------------------------------------------------------------------
\* verify_integrity

\* the body of the loop of verify_integrity: the file is reported as mismatched
\* (the entry is read by the normalized name; zipfile keeps a backslash in an
\* entry name where os.sep is '/')
Differs(file, file_name) ==
    LET zip_content_bytes == ZipRead(file.entries, file_name)
        zip_content == Decode(zip_content_bytes.data, "utf-8")
    IN  \/ zip_content_bytes.raised = "KeyError"
        \/ /\ zip_content_bytes.raised = ""
           /\ \/ zip_content.raised = "UnicodeDecodeError"
              \/ zip_content.text # content_map[file_name]

\* verify_integrity(epub_path) on disk D; the lists of the report as sets
verify_integrity(D, epub_path) ==
    LET file == D.files[epub_path]
        epub_files == {normalized_path(name) : name \in NameList(file.entries)}
        manager_files == DOMAIN content_map
        both == manager_files \cap epub_files
        raised == {ZipRead(file.entries, name).raised : name \in both} \ {"", "KeyError"}
    IN  IF file = MISSING THEN Returned([error |-> <<"EPUB file does not exist.">>])
        ELSE IF file.kind # "zip" \/ "BadZipFile" \in raised
             THEN Returned([error |-> <<"Failed to read EPUB file.">>])
        ELSE IF raised # {} THEN Raised(CHOOSE e \in raised : TRUE)
        ELSE Returned([missing_from_epub |-> manager_files \ epub_files,
                       missing_from_manager |-> epub_files \ manager_files,
                       mismatched_content |-> {name \in both : Differs(file, name)}])

\* EPUBSaver.verify_integrity(epub_path)
VerifyIntegrity(epub_path) ==
    /\ call' = [op |-> "verify_integrity", epub_path |-> epub_path]
    /\ ret' = verify_integrity(disk, epub_path)
    /\ UNCHANGED <<storeVars, engineVars, concVars>>

\* the archives that are saved and then verified
VerifiedBooks == {bGood, bLateMimetype, NOT_A_ZIP}

NextVerify ==
    \/ \E p \in SavePaths \ DOMAIN content_map : Add(p, eA)
    \/ \E p \in SearchPaths : Update(p, eAcute)
    \/ \E b \in VerifiedBooks : PutFile(BOOK, b)
    \/ \E out \in {NONE, SAVE_AS}, fault \in {"none", "write"} : Save(BOOK, out, FALSE, fault)
    \/ \E p \in {BOOK, SAVE_AS} : VerifyIntegrity(p)

SpecVerify == Init /\ [][NextVerify]_vars

\* the step verifies the archive that the successful save before it has written
VerifyFollowsSave ==
    /\ call.op = "save" /\ ret.raised = "" /\ ret.value.ok
    /\ call'.op = "verify_integrity" /\ call'.epub_path = TargetOf(call)

\* the corpus paths that are no entry of the archive
NotInArchive(file) ==
    {p \in DOMAIN content_map : \A i \in 1..Len(file.entries) : normalized_path(file.entries[i].filename) # p}

\* C33: verify_integrity of the archive a successful save has just written
\* reports no mismatched content, reports the corpus paths that are no entries
\* of the archive as missing from it, and changes neither the Store nor the archive
C33_SavedArchiveVerifies ==
    [][VerifyFollowsSave =>
          /\ ret'.raised = ""
          /\ ret'.value.mismatched_content = {}
          /\ ret'.value.missing_from_epub = NotInArchive(disk.files[call'.epub_path])
          /\ UNCHANGED <<storeVars, disk>>]_vars


\* ---------------------------------------------------------------------------
\* termination of fuzzy_search

\* the patterns: the empty one and a letter
TerminationPatterns == {<<>>, eA}

\* files with one line, with no character at all, with two lines
TerminationContents == {eA, eEmpty, eTeh}

NextTermination ==
    \/ \E p \in Paths \ DOMAIN content_map, x \in TerminationContents : Add(p, x)
    \/ \E pattern \in TerminationPatterns, d \in 0..MaxDistance :
          FuzzySearch(pattern, d, DefaultContextSize)

SpecTermination == Init /\ [][NextTermination]_vars

\* C34: fuzzy_search comes back for every pattern, the empty one included, and
\* every max_distance >= 0: the position in the line moves forward after every
\* accepted match
C34_FuzzySearchTerminates == call.op = "fuzzy_search" => ret.raised # NEVER_RETURNS


\* ---------------------------------------------------------------------------
\* The per-path history as a chain

\* the records of file_path link the original snapshot to the current content
ChainOf(file_path) ==
    LET h == History(file_path) IN
    h # <<>> =>
        /\ h[Len(h)][2] = content_map[file_path]
        /\ h[1][1] = original_content[file_path]
        /\ \A i \in 2..Len(h) : h[i][1] = h[i - 1][2]

\* C35: in every state reached by add, update and rollback calls, each path
\* with a non-empty history has a last record whose new value is the current
\* content, a first record whose previous value is the original snapshot, and
\* records each starting at the new value of the one before.
C35_HistoryChain ==
    \A p \in DOMAIN content_map : ChainOf(p)


\* ---------------------------------------------------------------------------
\* The aggregate stats against the Store

RECURSIVE CharsIn(_)
\* the sum of the lengths of the current contents of `paths`
CharsIn(paths) ==
    IF paths = {} THEN 0
    ELSE LET p == CHOOSE q \in paths : TRUE
         IN  Len(content_map[p]) + CharsIn(paths \ {p})

RECURSIVE WordsIn(_)
\* the sum of the word-token counts of the current contents of `paths`
WordsIn(paths) ==
    IF paths = {} THEN 0
    ELSE LET p == CHOOSE q \in paths : TRUE
         IN  Len(FindAllWords(content_map[p])) + WordsIn(paths \ {p})

StatsContents == {eB, <<"a", " ", "b">>}

NextStats ==
    \/ \E p \in Paths \ DOMAIN content_map : Add(p, eA)
    \/ \E p \in SearchPaths, x \in StatsContents : Update(p, x)
    \/ \E p \in SearchPaths : Rollback(p, 1)
    \/ PutFile(BOOK, bGood)
    \/ \E out \in {NONE, SAVE_AS}, fault \in {"none", "write"} : Save(BOOK, out, FALSE, fault)

SpecStats == Init /\ [][NextStats]_vars

\* C36: after any sequence of add, update, rollback and save calls the stats
\* agree with the Store: total_files is the number of corpus paths, total_chars
\* the sum of the lengths of the current contents, total_words the sum of their
\* word-token counts, and modified_count the size of the modified set.
C36_StatsAgree ==
    /\ stats.total_files = Cardinality(DOMAIN content_map)
    /\ stats.total_chars = CharsIn(DOMAIN content_map)
    /\ stats.total_words = WordsIn(DOMAIN content_map)
    /\ stats.modified_count = Cardinality(modified_files)

\* the three counters of the contents, without the count of modified files
StatsAgreeOnContents ==
    /\ stats.total_files = Cardinality(DOMAIN content_map)
    /\ stats.total_chars = CharsIn(DOMAIN content_map)
    /\ stats.total_words = WordsIn(DOMAIN content_map)


\* ---------------------------------------------------------------------------
\* The modified flag against what is on disk

\* has_modifications()
has_modifications == modified_files # {}

\* the content of file_path last persisted: the text of its entry in the book
\* (loaded from there, or written there by the last in-place save), and the
\* original snapshot for a path the book has no entry for
Persisted(file_path) ==
    LET book == disk.files[BOOK] IN
    IF book.kind = "zip" /\ file_path \in NameList(book.entries)
    THEN DecodeUtf8(ReadEntry(book.entries, file_path))
    ELSE original_content[file_path]

\* C37: in every state reached by add, update, rollback and save calls, a path
\* whose current content differs from the content last persisted is in the
\* modified set, and has_modifications() is true.
C37_ModifiedFlagShowsUnsaved ==
    \A p \in DOMAIN content_map :
        content_map[p] # Persisted(p) => p \in modified_files /\ has_modifications

\* the same while no in-place save has succeeded: the book holds what was loaded
UnsavedShownBeforeSave ==
    (disk.files[BOOK] \in {MISSING, bGood}) => C37_ModifiedFlagShowsUnsaved


\* ---------------------------------------------------------------------------
\* The batch operations and the undo history

BatchOps == {"pattern_replace", "replace_by_results"}

\* the most records the undo history holds in the runs with batch operations
MaxRecords == 1

\* the results a search for query q returns on the corpus as it is
FoundNow(q) ==
    SearchFiles(Store, key_order,
                build_search_regex(q.pattern, q.case_sensitive, q.regex_mode, q.whole_word),
                DefaultContextSize)

\* a file of two lines edited by single replaces, batches and undos in any
\* order, and a second file that only the batches reach
NextUndoBatch ==
    \/ Add("p1", eAaA) /\ "p1" \notin DOMAIN content_map
    \/ Add("p2", eBa) /\ "p2" \notin DOMAIN content_map
    \/ Len(replacement_history) < MaxRecords /\ Replace("p1", 2, 0, 1, eB)
    \/ \E p \in SearchPaths : Rollback(p, 1)
    \/ PatternReplace(qLiteral.pattern, <<"b", "b">>, qLiteral.case_sensitive,
                      qLiteral.regex_mode, qLiteral.whole_word, NONE)
    \/ ReplaceByResults(FoundNow(qLiteral), <<"c">>)
    \/ UndoLastReplacement

SpecUndoBatch == Init /\ [][NextUndoBatch]_vars

\* the step is an undo that directly follows a batch operation, with a record to undo
UndoFollowsBatch ==
    /\ call.op \in BatchOps
    /\ call'.op = "undo_last_replacement"
    /\ replacement_history # <<>>

\* the undo of `record` has put the recorded line back and kept every other
\* line and every other file as the batch left them
LineRestored(record) ==
    LET file_path == record[1]
        lines == SplitLines(content_map[file_path])
    IN  /\ content_map'[file_path] = JoinLines([lines EXCEPT ![record[2]] = record[3]])
        /\ \A q \in DOMAIN content_map \ {file_path} : content_map'[q] = content_map[q]

\* C38: pattern_replace and replace_by_results leave the replacement history
\* as it is; the history grows only by the record of a successful replace; an
\* undo_last_replacement that follows a batch operation removes the record of
\* the most recent replace and puts the line it recorded back into the file,
\* every other line and every other file staying as the batch left them.
C38_BatchKeepsUndoHistory ==
    /\ [][call'.op \in BatchOps => replacement_history' = replacement_history]_vars
    /\ [][Len(replacement_history') > Len(replacement_history) =>
             /\ call'.op = "replace" /\ ret' = Returned(TRUE)
             /\ replacement_history' = Append(replacement_history, RecordOf(call'))]_vars
    /\ [][UndoFollowsBatch =>
             /\ replacement_history' = Front(replacement_history)
             /\ LineRestored(replacement_history[Len(replacement_history)])]_vars

\* a batch has rewritten both lines of p1 and the undo has put the second back
C38_Witness ==
    /\ call.op = "undo_last_replacement" /\ ret = Returned(TRUE)
    /\ "p1" \in DOMAIN content_map
    /\ content_map["p1"] = <<"b", "b", " ", "b", "b", NL, "a">>


\* ---------------------------------------------------------------------------
\* Literal mode and the replacement string

\* replacement strings: a letter, a lone backslash, a group reference, the
\* escape of a line break, a doubled backslash
LiteralTexts ==
    {eB, <<BACKSLASH>>, <<BACKSLASH, "1">>, <<BACKSLASH, "n">>, <<BACKSLASH, BACKSLASH>>}

NextLiteral ==
    \/ \E p \in Paths \ DOMAIN content_map, x \in {eBa, eB} : Add(p, x)
    \/ \E t \in LiteralTexts :
          PatternReplace(qLiteral.pattern, t, qLiteral.case_sensitive, FALSE,
                         qLiteral.whole_word, NONE)

SpecLiteral == Init /\ [][NextLiteral]_vars

\* C40: with regex_mode false pattern_replace returns stats without raising
\* and every file then holds its content with the replacement string put,
\* character for character, in the place of every match, whatever the
\* replacement string is (backslashes and group references included).
C40_LiteralReplacementVerbatim ==
    [][(call'.op = "pattern_replace" /\ ~call'.regex_mode) =>
          /\ ret'.raised = ""
          /\ \A p \in DOMAIN content_map :
                content_map'[p] = Substituted(call', content_map[p])]_vars

\* the same for replacement strings without a backslash
LiteralVerbatimWithoutBackslash ==
    [][(call'.op = "pattern_replace" /\ ~call'.regex_mode
        /\ \A i \in 1..Len(call'.replacement) : call'.replacement[i] # BACKSLASH) =>
          /\ ret'.raised = ""
          /\ \A p \in DOMAIN content_map :
                content_map'[p] = Substituted(call', content_map[p])]_vars


\* ---------------------------------------------------------------------------
\* Save and reload

\* a ContentManager as CoreModules.load_epub makes it, with the order of its keys
NewStore ==
    [content_map |-> <<>>, original_content |-> <<>>, modified_files |-> {},
     change_history |-> <<>>, file_index |-> <<>>,
     stats |-> [total_files |-> 0, total_words |-> 0, total_chars |-> 0, modified_count |-> 0],
     key_order |-> <<>>]

\* the loop of CoreModules.load_epub: add_file for every item of the loader's content map
RECURSIVE AddAll(_, _)
AddAll(S, items) ==
    IF Len(items) = 0 THEN S
    ELSE LET file_path == items[1].key
             content == items[1].value
         IN  IF ~validate_content(content) THEN AddAll(S, Tail(items))
             ELSE AddAll([S EXCEPT
                            !.content_map = Put(@, file_path, content),
                            !.original_content = Put(@, file_path, content),
                            !.key_order = IF file_path \in DOMAIN S.content_map THEN @
                                          ELSE Append(@, file_path),
                            !.stats = update_stats_add(@, content),
                            !.file_index = index_content(@, file_path, content)],
                         Tail(items))

\* CoreModules.load_epub(file_path): a new Store and new engines, a new loader,
\* and the loaded texts added to the Store
Open(file_path) ==
    LET done == load_epub(disk, NewLoader, file_path)
        loaded == done.ret.raised = "" /\ done.ret.repr = "TRUE"
        S == IF loaded THEN AddAll(NewStore, done.loader.content_map) ELSE NewStore
    IN  /\ call' = [op |-> "open", file_path |-> file_path]
        /\ ret' = IF done.ret.raised # "" THEN done.ret
                  ELSE IF loaded THEN Returned(Outcome(TRUE, "Loaded"))
                  ELSE Returned(Outcome(FALSE, "Failed to load EPUB content."))
        /\ content_map' = S.content_map
        /\ original_content' = S.original_content
        /\ modified_files' = S.modified_files
        /\ change_history' = S.change_history
        /\ file_index' = S.file_index
        /\ stats' = S.stats
        /\ key_order' = S.key_order
        /\ search_cache' = <<>>
        /\ replacement_history' = <<>>
        /\ UNCHANGED concVars

\* books whose second text is UTF-8 with a byte order mark, UTF-16 with a byte
\* order mark, UTF-8 by declaration, ISO 8859-1 by declaration
lBomUtf8 == Zip(<<eMime, eContainer, ePackage, eMemberA, Entry("b.xhtml", FALSE, BOM_UTF8 \o <<"0xC3", "0xA9">>)>>)
lBomUtf16 == Zip(<<eMime, eContainer, ePackage, eMemberA, Entry("b.xhtml", FALSE, BOM_UTF16_LE \o <<"0xE9", "0x00">>)>>)
lDeclaredUtf8 == Zip(<<eMime, eContainer, ePackage, eMemberA, Entry("b.xhtml", FALSE, <<DECL_UTF8, "0xC3", "0xA9">>)>>)
lDeclaredLatin1 == Zip(<<eMime, eContainer, ePackage, eMemberA, Entry("b.xhtml", FALSE, <<DECL_LATIN1, "0xE9">>)>>)
ReloadBooks == {lGood, lBomUtf8, lBomUtf16, lDeclaredUtf8, lDeclaredLatin1}

\* a book is opened, edited, saved and opened again
NextReload ==
    \/ \E b \in ReloadBooks : PutFile(BOOK, b)
    \/ \E p \in {BOOK, SAVE_AS} : Open(p)
    \/ \E x \in {eB, eAcute} : Update("b.xhtml", x)
    \/ \E out \in {NONE, SAVE_AS} : Save(BOOK, out, FALSE, "none")

SpecReload == Init /\ [][NextReload]_vars

\* the step opens the archive that the call before it has saved successfully
OpenFollowsSave ==
    /\ call.op = "save" /\ ret.raised = "" /\ ret.value.ok
    /\ call'.op = "open" /\ call'.file_path = TargetOf(call)

\* every path of the corpus is in the corpus of the next state, with the same content
SameTexts ==
    \A p \in DOMAIN content_map : p \in DOMAIN content_map' /\ content_map'[p] = content_map[p]

\* C39: opening the archive that a successful save has just written gives, for
\* every path of the saved corpus, the content the Store held at the save,
\* whatever the encoding of the member in the original archive was.
C39_TextSurvivesSaveAndReload ==
    [][OpenFollowsSave => ret'.raised = "" /\ ret'.value.ok /\ SameTexts]_vars

\* the same for the saved archives in which no text declares ISO 8859-1
NoLatin1Declared(file) ==
    \A i \in 1..Len(file.entries) :
        file.entries[i].data = <<>> \/ file.entries[i].data[1] # DECL_LATIN1

TextSurvivesWithoutDeclaredLatin1 ==
    [][(OpenFollowsSave /\ NoLatin1Declared(disk.files[call'.file_path])) =>
          ret'.raised = "" /\ ret'.value.ok /\ SameTexts]_vars

=============================================================================
